---- MODULE Spec2Model ----
(***************************************************************************)
(* Model of the statement pipeline of the RMDB-based engine: the DML       *)
(* executors (Insert / Update / Delete) with their index maintenance, and  *)
(* the volcano iterators (IndexScan, Filter, NestedLoopJoin, Projection,   *)
(* Sort, Explain).                                                         *)
(*                                                                         *)
(* Rows are modelled field-wise: a row is a sequence of column values, a   *)
(* column is addressed by its position (the code addresses it by offset    *)
(* and length).  INT columns hold integers; FLOAT columns hold the value   *)
(* in tenths (15 stands for 1.5), so that the INT<->FLOAT coercions of the *)
(* code are real conversions.                                              *)
(***************************************************************************)
EXTENDS Integers, Sequences, FiniteSets, TLC

\* ------------------------------------------------------------------ bounds
MaxRids == 3          \* heap slots of the table
MaxOps == 2           \* statements run against the table
MaxNext == 2          \* Next() calls on one UPDATE executor
MaxRows == 3          \* rows of table t read by the executors
MaxConds == 2         \* literal conditions of an index scan
MaxBegins == 2        \* beginTuple() calls on one executor tree
IntHalf == 8          \* int is modelled with the range -IntHalf .. IntHalf - 1

\* ------------------------------------------------------- program constants
INVALID_PAGE_ID == -1
NoRec == <<>>         \* an empty heap slot

\* The modelled table t(a INT, b FLOAT).
ColTypes == <<"int", "float">>
NCols == Len(ColTypes)

IntVals == 1..2
Values ==
    {[type |-> "int", val |-> v] : v \in IntVals}
      \cup {[type |-> "float", val |-> 15], [type |-> "str", val |-> 0]}

\* tab_.indexes: each index is the ordered list of its columns.
IndexConfigs ==
    { <<>>, << <<1>> >>, << <<1>>, <<2>> >>, << <<2>>, <<1>>, <<1, 2>> >> }

VARIABLES
    indexes,      \* tab_.indexes of the table (declared order)
    heap,         \* RmFileHandle: rid -> row, or NoRec
    idx,          \* IxIndexHandle per index: set of <<key, rid>>
    dml,          \* the DML executor of the running statement
    err,          \* the error the last constructor or Next() raised
    ix_calls,     \* the index calls the last Next() made
    snap,         \* table and rid of the INSERT that has just succeeded
    write_set,    \* context_->txn_ write records
    lock_shared,  \* lock_shared_on_table calls made on the table's fd
    nops          \* statements started

dmlvars == <<indexes, heap, idx, dml, err, ix_calls, snap, write_set,
            lock_shared, nops>>

VARIABLES
    db,           \* the tables the executor tree reads: name -> heap rows
    ex,           \* the executor tree of the running SELECT
    mode,         \* how the caller drives the tree
    out,          \* rows the caller got from Next(), one per position
    rids_out,     \* rid() read by the caller at each position
    nexts,        \* results of the Next() calls made at this position
    at_next,      \* <<is_end(), tree>> before the first Next() at this position
    last_call,    \* the last call the caller made on the root
    begins,       \* beginTuple() calls made on the root
    at_end_test,  \* how IxScan::is_end compares the cursor with the upper one
    int_overflow  \* what the build makes of an int subtraction that overflows

execvars == <<db, ex, mode, out, rids_out, nexts, at_next, last_call,
              begins, at_end_test, int_overflow>>

VARIABLES
    sql,          \* the parsed SELECT statement handed to Analyze::do_analyze
    knobs,        \* Planner::enable_nestedloop_join, enable_sortmerge_join
    catalog,      \* the indexes of every table, as lists of column names
    query,        \* the Query do_analyze returned
    plan,         \* the Plan do_planner returned
    portal,       \* the PortalStmt Portal::start returned
    stage         \* how far the statement has come

planvars == <<sql, knobs, catalog, query, plan, portal, stage>>

VARIABLES
    tabs_,        \* db_.tabs_: table name -> TabMeta
    fhs_,         \* the record files: table name -> record size
    ihs_,         \* the names of the open index handles
    ddl_err       \* the error the last DDL call raised

catvars == <<tabs_, fhs_, ihs_, ddl_err>>

VARIABLES
    thr           \* the DML statement of each session and how far it has come

concvars == <<thr>>

vars == <<dmlvars, execvars, planvars, catvars, concvars>>

\* --------------------------------------------------------------- utilities
Rids == 1..MaxRids
SeqsNoDup(S) ==
    UNION { {s \in [1..n -> S] : \A i, j \in 1..n : i # j => s[i] # s[j]}
            : n \in 0..Cardinality(S) }
Min(S) == CHOOSE x \in S : \A y \in S : x <= y

\* static_cast<int>(float): truncation toward zero of a value in tenths.
TruncToInt(t) == IF t >= 0 THEN t \div 10 ELSE -((-t) \div 10)

\* The type check and conversion both InsertExecutor::Next and
\* UpdateExecutor::Next apply to a value before init_raw.
Coerce(colType, v) ==
    IF colType = v.type THEN [ok |-> TRUE, raw |-> v.val]
    ELSE IF colType = "int" /\ v.type = "float"
         THEN [ok |-> TRUE, raw |-> TruncToInt(v.val)]
    ELSE IF colType = "float" /\ v.type = "int"
         THEN [ok |-> TRUE, raw |-> v.val * 10]
    ELSE [ok |-> FALSE, raw |-> 0]

\* ------------------------------------------------ record manager (external)
Live(h) == {r \in Rids : h[r] # NoRec}
Free(h) == Rids \ Live(h)
insert_record(h, rec) ==
    LET rid == Min(Free(h)) IN [rid |-> rid, heap |-> [h EXCEPT ![rid] = rec]]
delete_record(h, rid) == [h EXCEPT ![rid] = NoRec]
update_record(h, rid, rec) == [h EXCEPT ![rid] = rec]

\* ------------------------------------------------- index manager (external)
\* A unique index: insert_entry of a key that is present returns the
\* INVALID sentinel, as does an insert the test double makes fail.
insert_entry(ix, key, rid, forced) ==
    IF forced \/ (\E e \in ix : e[1] = key)
    THEN [res |-> INVALID_PAGE_ID, ix |-> ix]
    ELSE [res |-> 1, ix |-> ix \cup {<<key, rid>>}]
delete_entry(ix, key) == {e \in ix : e[1] # key}

\* The key of a row for one index: the indexed columns in declared order.
IndexKey(cols, rec) == [j \in 1..Len(cols) |-> rec[cols[j]]]

\* --------------------------------------------------------- InsertExecutor
\* The arity test of the constructor.
InsertArityAtLeast(values) == Len(values) >= NCols

InsertArityOk(values) == Len(values) = NCols

\* The rollback loop of insert_index: delete the keys of indexes 1..i-1.
RECURSIVE insert_index_rollback_skip(_, _, _, _, _)
insert_index_rollback_skip(rollback_i, i, ix, rec, calls) ==
    IF rollback_i >= i - 1 THEN [idx |-> ix, calls |-> calls]
    ELSE LET key == IndexKey(indexes[rollback_i], rec)
         IN insert_index_rollback_skip(rollback_i + 1, i,
                [ix EXCEPT ![rollback_i] = delete_entry(ix[rollback_i], key)],
                rec, Append(calls, <<"delete_entry", rollback_i, key, 0>>))

RECURSIVE insert_index_rollback(_, _, _, _, _)
insert_index_rollback(rollback_i, i, ix, rec, calls) ==
    IF rollback_i >= i THEN [idx |-> ix, calls |-> calls]
    ELSE LET key == IndexKey(indexes[rollback_i], rec)
         IN insert_index_rollback(rollback_i + 1, i,
                [ix EXCEPT ![rollback_i] = delete_entry(ix[rollback_i], key)],
                rec, Append(calls, <<"delete_entry", rollback_i, key, 0>>))

RECURSIVE insert_index_loop(_, _, _, _, _, _)
insert_index_loop(i, ix, rec, rid, fail, calls) ==
    IF i > Len(indexes) THEN [ok |-> TRUE, idx |-> ix, calls |-> calls, k |-> 0]
    ELSE LET key == IndexKey(indexes[i], rec)
             r == insert_entry(ix[i], key, rid, i \in fail)
             c == Append(calls, <<"insert_entry", i, key, r.res>>)
         IN IF r.res = INVALID_PAGE_ID
            THEN LET rb == insert_index_rollback(1, i, ix, rec, c)
                 IN [ok |-> FALSE, idx |-> rb.idx, calls |-> rb.calls, k |-> i]
            ELSE insert_index_loop(i + 1, [ix EXCEPT ![i] = r.ix],
                                   rec, rid, fail, c)

insert_index(ix, rec, rid, fail) == insert_index_loop(1, ix, rec, rid, fail, <<>>)

\* The row InsertExecutor::Next assembles from values_ (steps 2.1 - 2.3).
InsertCompatible(values) ==
    \A i \in 1..NCols : i <= Len(values) => Coerce(ColTypes[i], values[i]).ok
InsertRec(values) ==
    [i \in 1..NCols |->
        IF i <= Len(values) THEN Coerce(ColTypes[i], values[i]).raw ELSE 0]

\* A statement is built once the previous one has been run (Portal::start,
\* then Portal::run, per statement).
Idle == dml.kind = "none" \/ dml.nnext >= 1

NoDml == [kind |-> "none", values |-> <<>>, rids |-> <<>>, sets |-> <<>>,
          rid_idx_ |-> 0, rid_ |-> 0, nnext |-> 0]
NoSnap == [valid |-> FALSE, heap |-> <<>>, idx |-> <<>>, rid |-> 0]

\* InsertExecutor::InsertExecutor
NewInsert(values) ==
    /\ Idle
    /\ nops < MaxOps
    /\ nops' = nops + 1
    /\ IF ~InsertArityOk(values)
       THEN /\ dml' = [NoDml EXCEPT !.values = values]
            /\ err' = "InvalidValueCount"
       ELSE /\ dml' = [NoDml EXCEPT !.kind = "insert", !.values = values]
            /\ err' = "none"
    /\ ix_calls' = <<>>
    /\ snap' = NoSnap
    /\ UNCHANGED <<indexes, heap, idx, write_set, lock_shared>>

\* InsertExecutor::Next
InsertNext(fail) ==
    /\ dml.kind = "insert"
    /\ dml.nnext = 0
    /\ Free(heap) # {}
    /\ IF ~InsertCompatible(dml.values)
       THEN /\ err' = "IncompatibleType"
            /\ ix_calls' = <<>>
            /\ dml' = [dml EXCEPT !.nnext = 1]
            /\ UNCHANGED <<heap, idx, snap>>
       ELSE LET rec == InsertRec(dml.values)
                ins == insert_record(heap, rec)
                r == insert_index(idx, rec, ins.rid, fail)
            IN /\ idx' = r.idx
               /\ heap' = IF r.ok THEN ins.heap
                          ELSE delete_record(ins.heap, ins.rid)
               /\ dml' = [dml EXCEPT !.nnext = 1, !.rid_ = ins.rid]
               /\ err' = IF r.ok THEN "none" ELSE "RMDBError"
               /\ ix_calls' = r.calls
               /\ snap' = IF r.ok
                          THEN [valid |-> TRUE, heap |-> heap, idx |-> idx,
                                rid |-> ins.rid]
                          ELSE NoSnap
    /\ UNCHANGED <<indexes, write_set, lock_shared, nops>>

\* --------------------------------------------------------- DeleteExecutor
\* DeleteExecutor::delete_index (defined by the class, not called by Next).
RECURSIVE delete_index(_, _, _)
delete_index(i, ix, rec) ==
    IF i > Len(indexes) THEN ix
    ELSE delete_index(i + 1,
            [ix EXCEPT ![i] = delete_entry(ix[i], IndexKey(indexes[i], rec))],
            rec)

\* DeleteExecutor::DeleteExecutor
NewDelete(rids) ==
    /\ Idle
    /\ nops < MaxOps
    /\ nops' = nops + 1
    /\ dml' = [NoDml EXCEPT !.kind = "delete", !.rids = rids]
    /\ lock_shared' = lock_shared + 1
    /\ err' = "none"
    /\ ix_calls' = <<>>
    /\ snap' = IF dml.kind = "insert" THEN snap ELSE NoSnap
    /\ UNCHANGED <<indexes, heap, idx, write_set>>

\* The loop of DeleteExecutor::Next over rids_.
RECURSIVE delete_loop(_, _, _)
delete_loop(n, h, rids) ==
    IF n > Len(rids) THEN [heap |-> h, err |-> "none"]
    ELSE IF h[rids[n]] = NoRec THEN [heap |-> h, err |-> "RecordNotFound"]
    ELSE delete_loop(n + 1, delete_record(h, rids[n]), rids)

\* DeleteExecutor::Next
DeleteNext ==
    /\ dml.kind = "delete"
    /\ dml.nnext = 0
    /\ LET r == delete_loop(1, heap, dml.rids)
       IN /\ heap' = r.heap
          /\ err' = r.err
    /\ dml' = [dml EXCEPT !.nnext = 1]
    /\ UNCHANGED <<indexes, idx, ix_calls, snap, write_set, lock_shared, nops>>

\* --------------------------------------------------------- UpdateExecutor
\* Step 3 of UpdateExecutor::Next: the new row, or the type error.
SetCompatible(sets) ==
    \A n \in 1..Len(sets) : Coerce(ColTypes[sets[n].col], sets[n].rhs).ok

ApplySetRaw(rec, sets, n) == [rec EXCEPT ![sets[n].col] = sets[n].rhs.val]

ApplySet(rec, sets, n) ==
    [rec EXCEPT ![sets[n].col] = Coerce(ColTypes[sets[n].col], sets[n].rhs).raw]

RECURSIVE ApplySets(_, _, _)
ApplySets(rec, sets, n) ==
    IF n > Len(sets) THEN rec ELSE ApplySets(ApplySet(rec, sets, n), sets, n + 1)

\* The test of update_indexes that skips an index whose key did not change.
KeyUnchangedNever(old_key, new_key) == FALSE

KeyUnchanged(old_key, new_key) == old_key = new_key

\* UpdateExecutor::update_indexes
RECURSIVE update_indexes(_, _, _, _, _, _, _)
update_indexes(i, ix, old_record, new_record, rid, fail, calls) ==
    IF i > Len(indexes) THEN [ok |-> TRUE, idx |-> ix, calls |-> calls]
    ELSE LET old_key == IndexKey(indexes[i], old_record)
             new_key == IndexKey(indexes[i], new_record)
         IN IF KeyUnchanged(old_key, new_key)
            THEN update_indexes(i + 1, ix, old_record, new_record, rid,
                                fail, calls)
            ELSE LET d == delete_entry(ix[i], old_key)
                     r == insert_entry(d, new_key, rid, i \in fail)
                     c == calls \o << <<"delete_entry", i, old_key, 0>>,
                                      <<"insert_entry", i, new_key, r.res>> >>
                 IN IF r.res = INVALID_PAGE_ID
                    THEN [ok |-> FALSE, idx |-> [ix EXCEPT ![i] = r.ix],
                          calls |-> c]
                    ELSE update_indexes(i + 1, [ix EXCEPT ![i] = r.ix],
                                        old_record, new_record, rid, fail, c)

\* The row image a WriteRecord of UpdateExecutor::Next carries.
UndoImageNew(old_record, new_record) == new_record

UndoImage(old_record, new_record) == old_record

\* UpdateExecutor::UpdateExecutor
NewUpdate(sets, rids) ==
    /\ Idle
    /\ nops < MaxOps
    /\ nops' = nops + 1
    /\ dml' = [NoDml EXCEPT !.kind = "update", !.rids = rids, !.sets = sets]
    /\ err' = "none"
    /\ ix_calls' = <<>>
    /\ snap' = NoSnap
    /\ UNCHANGED <<indexes, heap, idx, write_set, lock_shared>>

\* The loop of UpdateExecutor::Next, from rid_idx_ on.
RECURSIVE update_loop(_, _, _, _, _, _, _, _)
update_loop(rid_idx, h, ix, ws, calls, rids, sets, fail) ==
    IF rid_idx >= Len(rids)
    THEN [rid_idx |-> rid_idx, heap |-> h, idx |-> ix, ws |-> ws,
          calls |-> calls, err |-> "none"]
    ELSE LET rid == rids[rid_idx + 1]
             old_record == h[rid]
         IN IF old_record = NoRec
            THEN [rid_idx |-> rid_idx, heap |-> h, idx |-> ix, ws |-> ws,
                  calls |-> calls, err |-> "RecordNotFound"]
            ELSE IF ~SetCompatible(sets)
            THEN [rid_idx |-> rid_idx, heap |-> h, idx |-> ix, ws |-> ws,
                  calls |-> calls, err |-> "IncompatibleType"]
            ELSE LET new_record == ApplySets(old_record, sets, 1)
                     u == update_indexes(1, ix, old_record, new_record, rid,
                                         fail, calls)
                 IN IF ~u.ok
                    THEN [rid_idx |-> rid_idx, heap |-> h, idx |-> u.idx,
                          ws |-> ws, calls |-> u.calls, err |-> "RMDBError"]
                    ELSE update_loop(rid_idx + 1,
                            update_record(h, rid, new_record), u.idx,
                            Append(ws, [type |-> "UPDATE_TUPLE", rid |-> rid,
                                        rec |-> UndoImage(old_record,
                                                          new_record)]),
                            u.calls, rids, sets, fail)

\* UpdateExecutor::Next
UpdateNext(fail) ==
    /\ dml.kind = "update"
    /\ dml.nnext < MaxNext
    /\ LET r == update_loop(dml.rid_idx_, heap, idx, write_set, <<>>,
                            dml.rids, dml.sets, fail)
       IN /\ heap' = r.heap
          /\ idx' = r.idx
          /\ write_set' = r.ws
          /\ dml' = [dml EXCEPT !.rid_idx_ = r.rid_idx, !.nnext = @ + 1]
          /\ err' = r.err
          /\ ix_calls' = r.calls
    /\ UNCHANGED <<indexes, snap, lock_shared, nops>>

\* ------------------------------------------------------ the DML state machine
\* The test double makes insert_entry fail on at most one index.
FailSets == {{}} \cup {{i} : i \in 1..Len(indexes)}
\* Value lists of INSERT statements: any value for column a; for column b
\* a value of its type, one to be coerced and one of no numeric type; and
\* two lists of a wrong length.
ValueLists ==
    {<<va, vb>> : va \in Values,
                  vb \in {v \in Values : v.type = "float" \/ v.val = 1}}
      \cup {<<[type |-> "int", val |-> 1], v>> : v \in {v \in Values : v.type = "str"}}
      \cup {[i \in 1..n |-> [type |-> "int", val |-> 1]] :
               n \in {NCols - 1, NCols + 1}}
SetClause == [col : 1..NCols, rhs : Values]
SetLists == {<<c>> : c \in SetClause}
              \cup {p \in SetClause \X SetClause :
                       /\ p[1].col = 1 /\ p[2].col = 2
                       /\ p[1].rhs.type = "int" /\ p[2].rhs = p[1].rhs}
\* The rid vector Portal::start collects from a scan: live rids, each once,
\* in the order of the scan (ascending or descending here).
RECURSIVE ScanOrder(_, _)
ScanOrder(S, up) ==
    IF S = {} THEN <<>>
    ELSE LET r == IF up THEN Min(S) ELSE CHOOSE x \in S : \A y \in S : x >= y
         IN <<r>> \o ScanOrder(S \ {r}, up)
RidVectors ==
    {ScanOrder(S, up) : S \in SUBSET Live(heap), up \in BOOLEAN}

\* The table as earlier statements left it, empty or holding StoredRows:
\* rows with pairwise different values in every column, every index holding
\* the entry of every row.
StoredRows == << <<1, 10>>, <<2, 20>> >>
StoredHeaps ==
    {[r \in Rids |-> IF r <= n THEN StoredRows[r] ELSE NoRec] :
        n \in {0, Len(StoredRows)}}

DmlInit ==
    /\ indexes \in IndexConfigs
    /\ heap \in StoredHeaps
    /\ idx = [i \in 1..Len(indexes) |->
                {<<IndexKey(indexes[i], heap[r]), r>> : r \in Live(heap)}]
    /\ dml = NoDml
    /\ err = "none"
    /\ ix_calls = <<>>
    /\ snap = NoSnap
    /\ write_set = <<>>
    /\ lock_shared = 0
    /\ nops = 0

\* ===================================================== volcano executors
NullRec == <<>>       \* the nullptr a Next() returns

\* The tables have the schema (a INT, b FLOAT); table s, which only the
\* analyzer sees, has (a INT, c CHAR).
TabCols(tab) ==
    IF tab = "s"
    THEN << [tab |-> tab, name |-> "a", type |-> "int"],
            [tab |-> tab, name |-> "c", type |-> "str"] >>
    ELSE << [tab |-> tab, name |-> "a", type |-> "int"],
            [tab |-> tab, name |-> "b", type |-> "float"] >>

\* AbstractExecutor::get_col: the first column with that table and name.
get_col(rec_cols, target) ==
    LET hits == {i \in 1..Len(rec_cols) :
                    rec_cols[i].tab = target.tab /\ rec_cols[i].name = target.col}
    IN IF hits = {} THEN 0 ELSE Min(hits)

Sign(x) == IF x < 0 THEN -1 ELSE IF x > 0 THEN 1 ELSE 0

\* A numeric value as the float eval_cond promotes it to (in tenths).
AsFloat(type, raw) == IF type = "int" THEN raw * 10 ELSE raw

OpHolds(op, cmp) ==
    CASE op = "EQ" -> cmp = 0
      [] op = "NE" -> cmp # 0
      [] op = "LT" -> cmp < 0
      [] op = "GT" -> cmp > 0
      [] op = "LE" -> cmp <= 0
      [] op = "GE" -> cmp >= 0

\* AbstractExecutor::eval_cond on numeric columns and literals.
eval_cond(rec_cols, cond, rec) ==
    LET lhs == get_col(rec_cols, cond.lhs_col)
        lhs_type == rec_cols[lhs].type
        rhs == IF cond.is_rhs_val THEN 0 ELSE get_col(rec_cols, cond.rhs_col)
        rhs_type == IF cond.is_rhs_val THEN cond.rhs_val.type
                    ELSE rec_cols[rhs].type
        rhs_raw == IF cond.is_rhs_val THEN cond.rhs_val.val ELSE rec[rhs]
        cmp == IF lhs_type = "int" /\ rhs_type = "int"
               THEN Sign(rec[lhs] - rhs_raw)
               ELSE Sign(AsFloat(lhs_type, rec[lhs]) - AsFloat(rhs_type, rhs_raw))
    IN OpHolds(cond.op, cmp)

\* AbstractExecutor::eval_conds
eval_conds(rec_cols, conds, rec) ==
    \A n \in 1..Len(conds) : eval_cond(rec_cols, conds[n], rec)

\* ------------------------------------------------ index cursor (external)
\* Order of two keys in the B+-tree: column by column.
RECURSIVE KeyLess(_, _)
KeyLess(k1, k2) ==
    IF k1 = <<>> \/ k2 = <<>> THEN FALSE
    ELSE IF Head(k1) # Head(k2) THEN Head(k1) < Head(k2)
    ELSE KeyLess(Tail(k1), Tail(k2))

\* The leaf level of the index on columns icols of a table: the entries
\* <<key, rid>> of its rows in key order.
Leaf(tab, icols) ==
    LET h == db[tab]
        ents == {<<IndexKey(icols, h[r]), r>> : r \in 1..Len(h)}
        n == Cardinality(ents)
    IN CHOOSE s \in [1..n -> ents] :
         /\ \A i, j \in 1..n : i < j => KeyLess(s[i][1], s[j][1])

\* Positions are 0 .. Len(leaf); Len(leaf) is leaf_end().
lower_bound(leaf, key) ==
    Cardinality({i \in 1..Len(leaf) : KeyLess(leaf[i][1], key)})
upper_bound(leaf, key) ==
    Cardinality({i \in 1..Len(leaf) : ~KeyLess(key, leaf[i][1])})

\* --------------------------------------------------------- IndexScanExecutor
\* The result of an int subtraction, wrapped to the width of int.
WrapInt(x) == ((x + IntHalf) % (2 * IntHalf)) - IntHalf

\* IndexScanExecutor::compare_values.  The difference of two ints that does
\* not fit an int is undefined: the build wraps it round, or it compares
\* the operands where the caller tests the sign of the difference.
compare_values(val1, val2, type) ==
    IF type = "int"
    THEN IF int_overflow = "wraps" THEN WrapInt(val1.val - val2.val)
         ELSE Sign(val1.val - val2.val)
    ELSE Sign(val1.val - val2.val)

NoBounds == [has_lower |-> FALSE, has_upper |-> FALSE,
             lower_val |-> [type |-> "int", val |-> 0],
             upper_val |-> [type |-> "int", val |-> 0],
             lower_inclusive |-> TRUE, upper_inclusive |-> TRUE]

\* One round of the loop of beginTuple that collects the bounds.
BoundStep(b, cond, index_col, type) ==
    IF ~cond.is_rhs_val \/ cond.lhs_col.col # index_col THEN b
    ELSE CASE cond.op = "EQ" ->
                [b EXCEPT !.lower_val = cond.rhs_val, !.upper_val = cond.rhs_val,
                          !.has_lower = TRUE, !.has_upper = TRUE,
                          !.lower_inclusive = TRUE, !.upper_inclusive = TRUE]
           [] cond.op = "GT" ->
                IF ~b.has_lower \/ compare_values(cond.rhs_val, b.lower_val, type) > 0
                THEN [b EXCEPT !.lower_val = cond.rhs_val, !.has_lower = TRUE,
                               !.lower_inclusive = FALSE]
                ELSE b
           [] cond.op = "GE" ->
                IF ~b.has_lower \/ compare_values(cond.rhs_val, b.lower_val, type) > 0
                THEN [b EXCEPT !.lower_val = cond.rhs_val, !.has_lower = TRUE,
                               !.lower_inclusive = TRUE]
                ELSE b
           [] cond.op = "LT" ->
                IF ~b.has_upper \/ compare_values(cond.rhs_val, b.upper_val, type) < 0
                THEN [b EXCEPT !.upper_val = cond.rhs_val, !.has_upper = TRUE,
                               !.upper_inclusive = FALSE]
                ELSE b
           [] cond.op = "LE" ->
                IF ~b.has_upper \/ compare_values(cond.rhs_val, b.upper_val, type) < 0
                THEN [b EXCEPT !.upper_val = cond.rhs_val, !.has_upper = TRUE,
                               !.upper_inclusive = TRUE]
                ELSE b
           [] OTHER -> b

RECURSIVE Bounds(_, _, _, _, _)
Bounds(b, conds, n, index_col, type) ==
    IF n > Len(conds) THEN b
    ELSE Bounds(BoundStep(b, conds[n], index_col, type), conds, n + 1,
                index_col, type)

ColTypeOf(tab, name) == TabCols(tab)[get_col(TabCols(tab), [tab |-> tab, col |-> name])].type

\* The cursors lower_iid and upper_iid of beginTuple.
ScanRange(e) ==
    LET leaf == Leaf(e.tab, e.icols)
        name == IF e.icols[1] = 1 THEN "a" ELSE "b"
        b == Bounds(NoBounds, e.conds, 1, name, ColTypeOf(e.tab, name))
    IN IF Len(e.icols) = 1 /\ (b.has_lower \/ b.has_upper)
       THEN [lower |-> IF b.has_lower
                       THEN IF b.lower_inclusive
                            THEN lower_bound(leaf, <<b.lower_val.val>>)
                            ELSE upper_bound(leaf, <<b.lower_val.val>>)
                       ELSE 0,
             upper |-> IF b.has_upper
                       THEN IF b.upper_inclusive
                            THEN upper_bound(leaf, <<b.upper_val.val>>)
                            ELSE lower_bound(leaf, <<b.upper_val.val>>)
                       ELSE Len(leaf)]
       ELSE [lower |-> 0, upper |-> Len(leaf)]

\* IxScan::is_end: the cursor has reached the upper cursor.  The index
\* manager decides whether a cursor that starts behind the upper cursor
\* counts as having reached it.
IxScan_is_end(e) ==
    IF at_end_test = "equal" THEN e.pos = e.upper ELSE e.pos >= e.upper

\* The loops of beginTuple and nextTuple that stop at the next entry whose
\* record satisfies fed_conds_.  A cursor that is not the upper cursor and
\* stands at leaf_end() has no entry to read: the scan has run off the leaf.
RECURSIVE IndexScan_seek(_)
IndexScan_seek(e) ==
    IF IxScan_is_end(e) THEN e
    ELSE LET leaf == Leaf(e.tab, e.icols)
         IN IF e.pos >= Len(leaf) THEN [e EXCEPT !.crash = TRUE]
            ELSE LET rid == leaf[e.pos + 1][2]
                     e1 == [e EXCEPT !.rid_ = rid]
                 IN IF eval_conds(TabCols(e.tab), e.conds, db[e.tab][rid])
                    THEN e1
                    ELSE IndexScan_seek([e1 EXCEPT !.pos = @ + 1])

\* IndexScanExecutor::beginTuple
IndexScan_beginTuple(e) ==
    LET r == ScanRange(e)
    IN IndexScan_seek([e EXCEPT !.open = TRUE, !.pos = r.lower, !.upper = r.upper])

\* IndexScanExecutor::is_end
IndexScan_is_end(e) == ~e.open \/ IxScan_is_end(e)

\* IndexScanExecutor::nextTuple
IndexScan_nextTuple(e) ==
    IF IxScan_is_end(e) THEN e ELSE IndexScan_seek([e EXCEPT !.pos = @ + 1])

\* IndexScanExecutor::Next: returns the current record and moves on.
IndexScan_Next(e) ==
    LET e0 == IF ~e.open THEN IndexScan_beginTuple(e) ELSE e
    IN IF IndexScan_is_end(e0) \/ e0.crash THEN [rec |-> NullRec, e |-> e0]
       ELSE [rec |-> db[e0.tab][e0.rid_], e |-> IndexScan_nextTuple(e0)]

\* ------------------------------------------------- SeqScanExecutor (4.5.1)
RECURSIVE SeqScan_seek(_)
SeqScan_seek(e) ==
    IF e.pos > Len(db[e.tab]) THEN e
    ELSE IF eval_conds(TabCols(e.tab), e.conds, db[e.tab][e.pos]) THEN e
    ELSE SeqScan_seek([e EXCEPT !.pos = @ + 1])

SeqScan_beginTuple(e) == SeqScan_seek([e EXCEPT !.pos = 1])
SeqScan_is_end(e) == e.pos > Len(db[e.tab])
SeqScan_nextTuple(e) ==
    IF SeqScan_is_end(e) THEN e ELSE SeqScan_seek([e EXCEPT !.pos = @ + 1])
SeqScan_Next(e) ==
    [rec |-> IF SeqScan_is_end(e) THEN NullRec ELSE db[e.tab][e.pos], e |-> e]

\* ------------------------------------------------------ executor dispatch
RECURSIVE Crashed(_)
Crashed(e) ==
    CASE e.kind \in {"ixscan"} -> e.crash
      [] e.kind \in {"seqscan", "explain"} -> FALSE
      [] e.kind = "nlj" -> e.crash \/ Crashed(e.left) \/ Crashed(e.right)
      [] e.kind = "sort" -> e.crash \/ Crashed(e.prev)
      [] e.kind = "filter" -> Crashed(e.child)
      [] e.kind = "proj" -> Crashed(e.prev)

\* cols() of an executor.
RECURSIVE Schema(_)
Schema(e) ==
    CASE e.kind \in {"ixscan", "seqscan"} -> TabCols(e.tab)
      [] e.kind = "nlj" -> Schema(e.left) \o Schema(e.right)
      [] e.kind = "filter" -> Schema(e.child)
      [] e.kind = "sort" -> Schema(e.prev)
      [] e.kind = "proj" ->
            [i \in 1..Len(e.sel_cols) |->
                Schema(e.prev)[get_col(Schema(e.prev), e.sel_cols[i])]]
      [] e.kind = "explain" -> <<>>

\* The byte length that a column definition gives a column: INT and FLOAT
\* are 4 bytes long, the CHAR column is a CHAR(8).
ColLen(type) == IF type = "str" THEN 8 ELSE 4
ColDefs(tab) ==
    [i \in 1..Len(TabCols(tab)) |->
        [name |-> TabCols(tab)[i].name, type |-> TabCols(tab)[i].type,
         len |-> ColLen(TabCols(tab)[i].type)]]

\* The sum of the lengths of columns.
RECURSIVE SumLenOf(_)
SumLenOf(cs) == IF cs = <<>> THEN 0 ELSE Head(cs).len + SumLenOf(Tail(cs))

\* SmManager::create_table: the ColMeta of the columns, each at the offset
\* where the one before it ends.
RECURSIVE create_table_cols(_, _, _)
create_table_cols(tab_name, col_defs, curr_offset) ==
    IF col_defs = <<>> THEN <<>>
    ELSE << [tab |-> tab_name, name |-> Head(col_defs).name,
             type |-> Head(col_defs).type, len |-> Head(col_defs).len,
             offset |-> curr_offset] >>
           \o create_table_cols(tab_name, Tail(col_defs),
                                curr_offset + Head(col_defs).len)

\* The selected columns at the offsets they have in the child.
projection_cols_kept(prev_cols, sel_cols, curr_offset) ==
    [i \in 1..Len(sel_cols) |-> prev_cols[get_col(prev_cols, sel_cols[i])]]

\* ProjectionExecutor::ProjectionExecutor: cols_, the selected columns of the
\* child at new offsets.
RECURSIVE projection_cols(_, _, _)
projection_cols(prev_cols, sel_cols, curr_offset) ==
    IF sel_cols = <<>> THEN <<>>
    ELSE << [prev_cols[get_col(prev_cols, Head(sel_cols))] EXCEPT
                !.offset = curr_offset] >>
           \o projection_cols(prev_cols, Tail(sel_cols),
                 curr_offset + prev_cols[get_col(prev_cols, Head(sel_cols))].len)

\* ProjectionExecutor::ProjectionExecutor: len_, the offset after the last
\* selected column.
RECURSIVE projection_len(_, _, _)
projection_len(prev_cols, sel_cols, curr_offset) ==
    IF sel_cols = <<>> THEN curr_offset
    ELSE projection_len(prev_cols, Tail(sel_cols),
             curr_offset + prev_cols[get_col(prev_cols, Head(sel_cols))].len)

\* NestedLoopJoinExecutor::NestedLoopJoinExecutor: cols_, the columns of the
\* left child and those of the right child moved by the left tupleLen.
join_cols(left_cols, right_cols, left_len) ==
    left_cols
      \o [i \in 1..Len(right_cols) |->
            [right_cols[i] EXCEPT !.offset = @ + left_len]]

\* cols() and tupleLen() of an executor, in bytes.
RECURSIVE exec_cols(_)
RECURSIVE tupleLen(_)
exec_cols(e) ==
    CASE e.kind \in {"ixscan", "seqscan"} ->
            create_table_cols(e.tab, ColDefs(e.tab), 0)
      [] e.kind = "nlj" ->
            join_cols(exec_cols(e.left), exec_cols(e.right), tupleLen(e.left))
      [] e.kind = "filter" -> exec_cols(e.child)
      [] e.kind = "sort" -> exec_cols(e.prev)
      [] e.kind = "proj" -> projection_cols(exec_cols(e.prev), e.sel_cols, 0)
      [] e.kind = "explain" -> <<>>
tupleLen(e) ==
    CASE e.kind \in {"ixscan", "seqscan"} ->
            exec_cols(e)[Len(exec_cols(e))].offset
              + exec_cols(e)[Len(exec_cols(e))].len
      [] e.kind = "nlj" -> tupleLen(e.left) + tupleLen(e.right)
      [] e.kind = "filter" -> tupleLen(e.child)
      [] e.kind = "sort" -> tupleLen(e.prev)
      [] e.kind = "proj" -> projection_len(exec_cols(e.prev), e.sel_cols, 0)
      [] e.kind = "explain" -> 0

\* ProjectionExecutor::Next: the record of len_ bytes and the byte ranges
\* that the memcpy of each selected column writes in it.
Projection_record(e) ==
    [size |-> tupleLen(e),
     writes |-> [i \in 1..Len(e.sel_cols) |->
                    [at |-> exec_cols(e)[i].offset,
                     len |-> exec_cols(e.prev)[get_col(exec_cols(e.prev),
                                                       e.sel_cols[i])].len]]]

\* NestedLoopJoinExecutor::Next: the record of len_ bytes, the left record
\* copied to its start and the right record behind it.
NestedLoopJoin_record(e) ==
    [size |-> tupleLen(e),
     writes |-> << [at |-> 0, len |-> tupleLen(e.left)],
                   [at |-> tupleLen(e.left), len |-> tupleLen(e.right)] >>]

\* A virtual call on an executor: the executor after the call and, for
\* Next(), the record returned.
RECURSIVE exCall(_, _)
exBegin(e) == exCall("beginTuple", e).e
exNextTuple(e) == exCall("nextTuple", e).e
exNext(e) == exCall("Next", e)
RECURSIVE exIsEnd(_)

\* ---------------------------------------------------------- FilterExecutor
RECURSIVE Filter_seek(_)
Filter_seek(e) ==
    IF exIsEnd(e.child) THEN e
    ELSE LET r == exNext(e.child)
         IN IF r.rec # NullRec /\ eval_conds(Schema(e.child), e.conds, r.rec)
            THEN [e EXCEPT !.child = r.e]
            ELSE Filter_seek([e EXCEPT !.child = exNextTuple(r.e)])

Filter_beginTuple(e) == Filter_seek([e EXCEPT !.child = exBegin(e.child)])

Filter_nextTuple(e) ==
    Filter_seek([e EXCEPT !.child = IF ~exIsEnd(e.child)
                                    THEN exNextTuple(e.child) ELSE e.child])

Filter_is_end(e) == exIsEnd(e.child)

Filter_Next(e) ==
    IF Filter_is_end(e) THEN [rec |-> NullRec, e |-> e]
    ELSE LET r == exNext(e.child)
         IN [rec |-> r.rec, e |-> [e EXCEPT !.child = r.e]]

\* -------------------------------------------------- NestedLoopJoinExecutor
\* The tail of the loop body of find_record and of nextTuple: advance the
\* left child, and on its end advance the right child and reopen the left.
NestedLoopJoin_advance(e) ==
    LET l == exNextTuple(e.left)
    IN IF exIsEnd(l)
       THEN [e EXCEPT !.right = exNextTuple(e.right), !.left = exBegin(l)]
       ELSE [e EXCEPT !.left = l]

\* NestedLoopJoinExecutor::find_record
RECURSIVE find_record(_)
find_record(e) ==
    IF exIsEnd(e.right) THEN [e EXCEPT !.is_end_ = TRUE]
    ELSE LET l == exNext(e.left)
             r == exNext(e.right)
             e1 == [e EXCEPT !.left = l.e, !.right = r.e]
         IN IF l.rec = NullRec \/ r.rec = NullRec
            THEN [e1 EXCEPT !.crash = TRUE]
            ELSE IF e.conds = <<>>
                    \/ eval_conds(Schema(e), e.conds, l.rec \o r.rec)
            THEN e1
            ELSE find_record(NestedLoopJoin_advance(e1))

\* What beginTuple does to is_end_ on entry: nothing.
NestedLoopJoin_reset(e) == e

\* NestedLoopJoinExecutor::beginTuple
NestedLoopJoin_beginTuple(e) ==
    LET e1 == [NestedLoopJoin_reset(e) EXCEPT !.left = exBegin(e.left),
                                              !.right = exBegin(e.right)]
    IN IF exIsEnd(e1.left) \/ exIsEnd(e1.right)
       THEN [e1 EXCEPT !.is_end_ = TRUE]
       ELSE find_record(e1)

NestedLoopJoin_is_end(e) == e.is_end_

\* NestedLoopJoinExecutor::nextTuple
NestedLoopJoin_nextTuple(e) ==
    IF NestedLoopJoin_is_end(e) THEN e
    ELSE find_record(NestedLoopJoin_advance(e))

\* NestedLoopJoinExecutor::Next: a null child record is dereferenced.
NestedLoopJoin_Next(e) ==
    LET l == exNext(e.left)
        r == exNext(e.right)
        e1 == [e EXCEPT !.left = l.e, !.right = r.e]
    IN IF l.rec = NullRec \/ r.rec = NullRec
       THEN [rec |-> NullRec, e |-> [e1 EXCEPT !.crash = TRUE]]
       ELSE [rec |-> l.rec \o r.rec, e |-> e1]

\* ------------------------------------------------------ ProjectionExecutor
\* A Next() that copies the selected columns in the opposite order.
Projection_Next_reversed(e) ==
    LET r == exNext(e.prev)
        e1 == [e EXCEPT !.prev = r.e]
    IN IF r.rec = NullRec THEN [rec |-> NullRec, e |-> e1]
       ELSE [rec |-> [i \in 1..Len(e.sel_cols) |->
                        r.rec[get_col(Schema(e.prev),
                                      e.sel_cols[Len(e.sel_cols) + 1 - i])]],
             e |-> e1]

\* ProjectionExecutor::Next
Projection_Next(e) ==
    LET r == exNext(e.prev)
        e1 == [e EXCEPT !.prev = r.e]
    IN IF r.rec = NullRec THEN [rec |-> NullRec, e |-> e1]
       ELSE [rec |-> [i \in 1..Len(e.sel_cols) |->
                        r.rec[get_col(Schema(e.prev), e.sel_cols[i])]],
             e |-> e1]

\* ------------------------------------------------------------ SortExecutor
\* The double compare_tuples reads at a FLOAT column, as <<high, low>> 32-bit
\* halves: the column's own 4 bytes are the low half, the 4 bytes after
\* them (the next column, or what lies past the record) the high half.  For
\* halves that are not negative, doubles order as these pairs do.
DoubleAt(rec, c) == <<IF c < Len(rec) THEN rec[c + 1] ELSE 0, rec[c]>>

\* SortExecutor::compare_tuples: a sorts before b.
RECURSIVE compare_tuples(_, _, _, _)
compare_tuples(e, a, b, i) ==
    IF i > Len(e.sel_cols) THEN FALSE
    ELSE LET c == get_col(Schema(e.prev), e.sel_cols[i])
             a_val == DoubleAt(a, c)
             b_val == DoubleAt(b, c)
             compare_result ==
                IF Schema(e.prev)[c].type = "int" THEN Sign(a[c] - b[c])
                ELSE IF a_val[1] # b_val[1] THEN Sign(a_val[1] - b_val[1])
                ELSE Sign(a_val[2] - b_val[2])
         IN IF compare_result # 0
            THEN IF e.is_desc_[i] THEN compare_result > 0 ELSE compare_result < 0
            ELSE compare_tuples(e, a, b, i + 1)

\* Sorting these tuples makes compare_tuples read past the end of a record:
\* a FLOAT sort column is the last column, and two tuples agree on the sort
\* columns before it.
ReadsPastRecord(e, tuples) ==
    \E i \in 1..Len(e.sel_cols) :
        LET c == get_col(Schema(e.prev), e.sel_cols[i])
            before == [e EXCEPT !.sel_cols = SubSeq(e.sel_cols, 1, i - 1)]
        IN /\ Schema(e.prev)[c].type = "float"
           /\ c = Len(Schema(e.prev))
           /\ \E m, n \in 1..Len(tuples) :
                 /\ m # n
                 /\ ~compare_tuples(before, tuples[m], tuples[n], 1)
                 /\ ~compare_tuples(before, tuples[n], tuples[m], 1)

\* The loop of beginTuple that drains the child into sorted_tuples.
RECURSIVE Sort_collect(_, _)
Sort_collect(prev, acc) ==
    IF exIsEnd(prev) THEN [prev |-> prev, tuples |-> acc]
    ELSE LET r == exNext(prev)
         IN Sort_collect(exNextTuple(r.e), Append(acc, r.rec))

\* std::sort with compare_tuples: an ordering of the tuples that respects
\* the comparator; rows that compare equal come out in the order the
\* library happens to leave them, which e.tie stands for.
std_sort(e, tuples) ==
    LET n == Len(tuples)
        p == CHOOSE q \in [1..n -> 1..n] :
               /\ \A i, j \in 1..n : i # j => q[i] # q[j]
               /\ \A i, j \in 1..n : i < j =>
                    /\ ~compare_tuples(e, tuples[q[j]], tuples[q[i]], 1)
                    /\ ~compare_tuples(e, tuples[q[i]], tuples[q[j]], 1)
                         => IF e.tie = "keep" THEN q[i] < q[j] ELSE q[i] > q[j]
    IN [i \in 1..n |-> tuples[p[i]]]

\* SortExecutor::beginTuple
Sort_beginTuple(e) ==
    LET c == Sort_collect(exBegin(e.prev), <<>>)
        e1 == [e EXCEPT !.prev = c.prev, !.tuple_num = Len(c.tuples)]
    IN IF Len(c.tuples) = 0
       THEN [e1 EXCEPT !.sorted_tuples = <<>>, !.is_end_ = TRUE]
       ELSE IF \E i \in 1..Len(c.tuples) : c.tuples[i] = NullRec
       THEN [e1 EXCEPT !.sorted_tuples = c.tuples, !.crash = TRUE]
       ELSE IF e.past = "fault" /\ ReadsPastRecord(e, c.tuples)
       THEN [e1 EXCEPT !.sorted_tuples = c.tuples, !.crash = TRUE]
       ELSE [e1 EXCEPT !.sorted_tuples = std_sort(e, c.tuples),
                       !.current_index = 0, !.is_end_ = FALSE]

\* SortExecutor::nextTuple
Sort_nextTuple(e) ==
    IF e.is_end_ THEN e
    ELSE [e EXCEPT !.current_index = @ + 1,
                   !.is_end_ = (e.current_index + 1 >= e.tuple_num)]

\* SortExecutor::Next
Sort_Next(e) ==
    [rec |-> IF e.is_end_ THEN NullRec ELSE e.sorted_tuples[e.current_index + 1],
     e |-> e]

\* --------------------------------------------------------- ExplainExecutor
\* plan_text is the text that build_plan_tree_string makes of the plan, a
\* sequence of lines; plan_output_ is the string the executor holds.
\* ExplainExecutor::beginTuple
Explain_beginTuple(e) ==
    IF ~e.has_executed_
    THEN [e EXCEPT !.plan_output_ = e.plan_text, !.has_executed_ = TRUE]
    ELSE e

\* ExplainExecutor::Next
Explain_Next(e) ==
    IF e.plan_output_ # <<>>
    THEN [rec |-> <<e.plan_output_>>, e |-> [e EXCEPT !.plan_output_ = <<>>]]
    ELSE [rec |-> NullRec, e |-> e]

\* ExplainExecutor::nextTuple
Explain_nextTuple(e) == [e EXCEPT !.has_executed_ = TRUE]

\* ExplainExecutor::is_end
Explain_is_end(e) == e.has_executed_

\* ------------------------------------------------------- virtual dispatch
exCall(call, e) ==
    CASE call = "beginTuple" ->
           [rec |-> NullRec,
            e |-> CASE e.kind = "ixscan" -> IndexScan_beginTuple(e)
                    [] e.kind = "seqscan" -> SeqScan_beginTuple(e)
                    [] e.kind = "filter" -> Filter_beginTuple(e)
                    [] e.kind = "nlj" -> NestedLoopJoin_beginTuple(e)
                    [] e.kind = "proj" ->
                          [e EXCEPT !.prev = exCall("beginTuple", e.prev).e]
                    [] e.kind = "sort" -> Sort_beginTuple(e)
                    [] e.kind = "explain" -> Explain_beginTuple(e)]
      [] call = "nextTuple" ->
           [rec |-> NullRec,
            e |-> CASE e.kind = "ixscan" -> IndexScan_nextTuple(e)
                    [] e.kind = "seqscan" -> SeqScan_nextTuple(e)
                    [] e.kind = "filter" -> Filter_nextTuple(e)
                    [] e.kind = "nlj" -> NestedLoopJoin_nextTuple(e)
                    [] e.kind = "proj" ->
                          [e EXCEPT !.prev = exCall("nextTuple", e.prev).e]
                    [] e.kind = "sort" -> Sort_nextTuple(e)
                    [] e.kind = "explain" -> Explain_nextTuple(e)]
      [] call = "Next" ->
           CASE e.kind = "ixscan" -> IndexScan_Next(e)
             [] e.kind = "seqscan" -> SeqScan_Next(e)
             [] e.kind = "filter" -> Filter_Next(e)
             [] e.kind = "nlj" -> NestedLoopJoin_Next(e)
             [] e.kind = "proj" -> Projection_Next(e)
             [] e.kind = "sort" -> Sort_Next(e)
             [] e.kind = "explain" -> Explain_Next(e)

\* is_end(); a crashed process answers nothing more.
exIsEnd(e) ==
    \/ Crashed(e)
    \/ CASE e.kind = "ixscan" -> IndexScan_is_end(e)
         [] e.kind = "seqscan" -> SeqScan_is_end(e)
         [] e.kind = "filter" -> Filter_is_end(e)
         [] e.kind = "nlj" -> NestedLoopJoin_is_end(e)
         [] e.kind = "proj" -> exIsEnd(e.prev)
         [] e.kind = "sort" -> e.is_end_
         [] e.kind = "explain" -> Explain_is_end(e)

\* rid() of an executor: the scans' current rid, delegated by Filter and
\* Projection, _abstract_rid (0) elsewhere.
RECURSIVE exRid(_)
exRid(e) ==
    CASE e.kind = "ixscan" -> e.rid_
      [] e.kind = "seqscan" -> e.pos
      [] e.kind = "filter" -> exRid(e.child)
      [] e.kind = "proj" -> exRid(e.prev)
      [] OTHER -> 0

\* ------------------------------------------------ executor construction
\* IndexScanExecutor::IndexScanExecutor: a condition whose left column is
\* of another table is turned round.
swap_op(op) ==
    CASE op = "EQ" -> "EQ" [] op = "NE" -> "NE" [] op = "LT" -> "GT"
      [] op = "GT" -> "LT" [] op = "LE" -> "GE" [] op = "GE" -> "LE"

IndexScan_normalise(tab, cond) ==
    IF cond.lhs_col.tab # tab
    THEN [cond EXCEPT !.lhs_col = cond.rhs_col, !.rhs_col = cond.lhs_col,
                      !.op = swap_op(cond.op)]
    ELSE cond

IndexScanExecutor(tab, conds, icols) ==
    [kind |-> "ixscan", tab |-> tab,
     conds |-> [n \in 1..Len(conds) |-> IndexScan_normalise(tab, conds[n])],
     icols |-> icols, open |-> FALSE, pos |-> 0, upper |-> 0, rid_ |-> 0,
     crash |-> FALSE]

SeqScanExecutor(tab, conds) ==
    [kind |-> "seqscan", tab |-> tab, conds |-> conds, pos |-> 0]

FilterExecutor(child, conds) ==
    [kind |-> "filter", child |-> child, conds |-> conds]

NestedLoopJoinExecutor(left, right, conds) ==
    [kind |-> "nlj", left |-> left, right |-> right, conds |-> conds,
     is_end_ |-> FALSE, crash |-> FALSE]

ProjectionExecutor(prev, sel_cols) ==
    [kind |-> "proj", prev |-> prev, sel_cols |-> sel_cols]

SortExecutor(prev, sel_cols, is_desc, tie) ==
    [kind |-> "sort", prev |-> prev, sel_cols |-> sel_cols,
     is_desc_ |-> is_desc, tie |-> tie, past |-> "zero",
     sorted_tuples |-> <<>>,
     tuple_num |-> 0, current_index |-> 0, is_end_ |-> FALSE, crash |-> FALSE]

ExplainExecutor(plan_text) ==
    [kind |-> "explain", plan_text |-> plan_text, plan_output_ |-> <<>>,
     has_executed_ |-> FALSE]

\* ------------------------------------------------------- the inputs
Col(tab, name) == [tab |-> tab, col |-> name]
Lit(tab, name, op, type, v) ==
    [lhs_col |-> Col(tab, name), op |-> op, is_rhs_val |-> TRUE,
     rhs_val |-> [type |-> type, val |-> v], rhs_col |-> Col("", "")]
ColCond(lhs, op, rhs) ==
    [lhs_col |-> lhs, op |-> op, is_rhs_val |-> FALSE,
     rhs_val |-> [type |-> "int", val |-> 0], rhs_col |-> rhs]

Ops == {"EQ", "NE", "LT", "GT", "LE", "GE"}
LitVals == 1..2

\* Literal conditions on t, as the analyzer leaves them: the literal has the
\* type of the column.
BaseConds ==
    {Lit("t", "a", op, "int", v) : op \in Ops, v \in LitVals}
      \cup {Lit("t", "b", op, "float", 10) : op \in {"EQ", "NE"}}
CondLists == UNION {[1..n -> BaseConds] : n \in 0..MaxConds}
FewConds ==
    { <<>>, <<Lit("t", "a", "GE", "int", 2)>>, <<Lit("t", "a", "NE", "int", 1)>>,
      <<Lit("t", "a", "GT", "int", 1), Lit("t", "a", "LE", "int", 2)>>,
      <<Lit("t", "b", "EQ", "float", 10)>> }
JoinConds(l, r) ==
    { <<>>, <<ColCond(Col(l, "a"), "EQ", Col(r, "a"))>>,
      <<ColCond(Col(l, "a"), "LT", Col(r, "a"))>> }

R1 == <<1, 10>>
R2 == <<2, 20>>
R3 == <<3, 10>>
\* Heaps of at most n rows with pairwise different values of a.
Heaps(rows, n) == UNION {SeqsNoDup(S) : S \in {X \in SUBSET rows : Cardinality(X) <= n}}

Scans(tab, condsets) ==
    {SeqScanExecutor(tab, c) : c \in condsets}
      \cup {IndexScanExecutor(tab, c, <<1>>) : c \in condsets}

Joins2 ==
    {NestedLoopJoinExecutor(l, r, c) :
        l \in Scans("t", {<<>>}), r \in Scans("u", {<<>>}), c \in JoinConds("t", "u")}
Joins3 ==
    {NestedLoopJoinExecutor(
        NestedLoopJoinExecutor(SeqScanExecutor("t", <<>>),
                               SeqScanExecutor("u", <<>>), c),
        SeqScanExecutor("v", <<>>), d) :
        c \in JoinConds("t", "u"), d \in {<<>>}}
        \cup
    {NestedLoopJoinExecutor(
        SeqScanExecutor("t", <<>>),
        NestedLoopJoinExecutor(SeqScanExecutor("u", <<>>),
                               SeqScanExecutor("v", <<>>), <<>>), <<>>)}
        \cup
    {NestedLoopJoinExecutor(FilterExecutor(SeqScanExecutor("t", <<>>), c),
                            SeqScanExecutor("u", <<>>), <<>>) :
        c \in FewConds}

\* Sorts of the join of t and u: rows tie on a column of one table; one or
\* two sort columns, each ascending or descending.
SortsOfJoin ==
    LET j == NestedLoopJoinExecutor(SeqScanExecutor("t", <<>>),
                                    SeqScanExecutor("u", <<>>), <<>>)
    IN {SortExecutor(j, <<Col("t", "a")>>, <<d>>, tie) :
            d \in BOOLEAN, tie \in {"keep", "swap"}}
         \cup {SortExecutor(j, <<Col("u", "a"), Col("t", "a")>>, <<d1, d2>>, "keep") :
                 d1 \in BOOLEAN, d2 \in BOOLEAN}
\* Sorts on a FLOAT column: t.b of the join, which u.a follows in the
\* record, and b of t alone, the last column, with both outcomes of the
\* read past the record.
SortsOnFloat ==
    {SortExecutor(NestedLoopJoinExecutor(SeqScanExecutor("t", <<>>),
                                         SeqScanExecutor("u", <<>>), <<>>),
                  <<Col("t", "b")>>, <<FALSE>>, "keep")}
      \cup {[SortExecutor(SeqScanExecutor("t", <<>>), <<Col("t", "b")>>,
                          <<d>>, "keep") EXCEPT !.past = p] :
               d \in BOOLEAN, p \in {"zero", "fault"}}

\* Projections of the join of t and u, and a projection of a projection with
\* the same columns, one of them selected twice.
ProjectionsOfJoin ==
    LET j == NestedLoopJoinExecutor(SeqScanExecutor("t", <<>>),
                                    SeqScanExecutor("u", <<>>), <<>>)
    IN {ProjectionExecutor(j, sel) :
            sel \in { <<Col("u", "b"), Col("t", "a")>>, <<Col("u", "a")>> }}
         \cup {ProjectionExecutor(ProjectionExecutor(ch, sel), sel) :
                 ch \in {j, SeqScanExecutor("t", <<>>)},
                 sel \in { <<Col("t", "b"), Col("t", "a")>>,
                           <<Col("t", "a"), Col("t", "a")>> }}

\* Index scans of t under several lower or several upper bounds on a whose
\* literals are further apart than an int can hold.
WideConds ==
    { <<Lit("t", "a", "GE", "int", -2), Lit("t", "a", "GE", "int", IntHalf - 1)>>,
      <<Lit("t", "a", "GT", "int", IntHalf - 1), Lit("t", "a", "GE", "int", -2)>>,
      <<Lit("t", "a", "LE", "int", -3), Lit("t", "a", "LT", "int", IntHalf - 1)>>,
      <<Lit("t", "a", "LT", "int", IntHalf - 1), Lit("t", "a", "LE", "int", -3),
        Lit("t", "a", "GE", "int", 1)>> }
WideScans == {IndexScanExecutor("t", c, <<1>>) : c \in WideConds}

Trees ==
    {IndexScanExecutor("t", c, <<1>>) : c \in CondLists}
      \cup WideScans
      \cup ProjectionsOfJoin
      \cup {IndexScanExecutor("t", c, <<1, 2>>) : c \in FewConds}
      \cup {SeqScanExecutor("t", c) : c \in FewConds}
      \cup {FilterExecutor(ch, c) : ch \in Scans("t", {<<>>}), c \in FewConds}
      \cup {FilterExecutor(j, <<Lit("t", "a", "GE", "int", 2)>>) : j \in Joins2}
      \cup Joins2 \cup Joins3
      \cup {ProjectionExecutor(ch, sel) :
              ch \in Scans("t", FewConds),
              sel \in { <<Col("t", "a")>>, <<Col("t", "b"), Col("t", "a")>> }}
      \cup {SortExecutor(ch, <<Col("t", "a")>>, <<d>>, tie) :
              ch \in Scans("t", {<<>>}), d \in BOOLEAN, tie \in {"keep", "swap"}}
      \cup SortsOfJoin \cup SortsOnFloat
      \cup {ExplainExecutor(<< <<"Scan(table=", "t", ")">> >>)}

RECURSIVE TabsOf(_)
TabsOf(e) ==
    CASE e.kind \in {"ixscan", "seqscan"} -> {e.tab}
      [] e.kind = "nlj" -> TabsOf(e.left) \cup TabsOf(e.right)
      [] e.kind = "filter" -> TabsOf(e.child)
      [] e.kind \in {"proj", "sort"} -> TabsOf(e.prev)
      [] e.kind = "explain" -> {}

Tabs == {"t", "u", "v"}
HeapsT == Heaps({R1, R2, R3}, MaxRows)
HeapsU == Heaps({R1, R2}, 2)

\* ------------------------------------------------ the caller of the tree
ExecIdle ==
    /\ db = [tab \in Tabs |-> <<>>]
    /\ ex = ExplainExecutor(<<>>)
    /\ mode = "none"
    /\ out = <<>>
    /\ rids_out = <<>>
    /\ nexts = <<>>
    /\ at_next = <<>>
    /\ last_call = "none"
    /\ begins = 0
    /\ at_end_test = "equal"
    /\ int_overflow = "wraps"

DmlIdle ==
    /\ indexes = <<>>
    /\ heap = [r \in Rids |-> NoRec]
    /\ idx = <<>>
    /\ dml = NoDml
    /\ err = "none"
    /\ ix_calls = <<>>
    /\ snap = NoSnap
    /\ write_set = <<>>
    /\ lock_shared = 0
    /\ nops = 0

ExecInit ==
    /\ ex \in Trees
    /\ \E ht \in (IF "t" \in TabsOf(ex) THEN HeapsT ELSE {<<>>}),
          hu \in (IF "u" \in TabsOf(ex) THEN HeapsU ELSE {<<>>}),
          hv \in (IF "v" \in TabsOf(ex) THEN HeapsU ELSE {<<>>}) :
          db = [tab \in Tabs |->
                  IF tab = "t" THEN ht ELSE IF tab = "u" THEN hu ELSE hv]
    /\ mode = "new"
    /\ out = <<>>
    /\ rids_out = <<>>
    /\ nexts = <<>>
    /\ at_next = <<>>
    /\ last_call = "ctor"
    /\ begins = 0
    /\ at_end_test \in {"equal", "reached"}
    /\ int_overflow \in (IF ex \in WideScans THEN {"wraps", "exact"} ELSE {"wraps"})


\* The caller opens the tree: the first call, or a reopening.
CallBeginTuple(m) ==
    /\ mode # "none"
    /\ IF mode = "new" THEN m \in {"rows", "rids", "free"} ELSE m = mode
    /\ begins < MaxBegins
    /\ ~Crashed(ex)
    /\ mode' = m
    /\ ex' = exBegin(ex)
    /\ out' = <<>>
    /\ rids_out' = IF m = "rids" /\ ~exIsEnd(ex') THEN <<exRid(ex')>> ELSE <<>>
    /\ nexts' = <<>>
    /\ at_next' = <<>>
    /\ last_call' = "begin"
    /\ begins' = begins + 1
    /\ UNCHANGED <<db, at_end_test, int_overflow>>

\* The caller reads the current row.
CallNext ==
    /\ mode \in {"rows", "free"}
    /\ ~exIsEnd(ex)
    /\ mode = "rows" => nexts = <<>>
    /\ Len(nexts) < 2
    /\ LET r == exNext(ex)
       IN /\ ex' = r.e
          /\ nexts' = Append(nexts, r.rec)
          /\ out' = IF mode = "rows" THEN Append(out, r.rec) ELSE out
    /\ at_next' = IF nexts = <<>> THEN <<exIsEnd(ex), ex>> ELSE at_next
    /\ last_call' = "next"
    /\ UNCHANGED <<db, mode, rids_out, begins, at_end_test, int_overflow>>

\* The caller moves on.  A draining loop does so after each row it read.
CallNextTuple ==
    /\ mode \in {"rows", "rids", "free"}
    /\ ~Crashed(ex)
    /\ mode = "rows" => Len(nexts) = 1
    /\ mode = "rids" => ~exIsEnd(ex)
    /\ ex' = exNextTuple(ex)
    /\ rids_out' = IF mode = "rids" /\ ~exIsEnd(ex')
                   THEN Append(rids_out, exRid(ex')) ELSE rids_out
    /\ nexts' = <<>>
    /\ at_next' = <<>>
    /\ last_call' = "nextTuple"
    /\ UNCHANGED <<db, mode, out, begins, at_end_test, int_overflow>>

\* ------------------------------------------------------------ the analyzer
\* The tables of the catalogue; each has the schema of TabCols.
DbTabs == {"t", "u", "v", "s"}

MapPut(m, k, v) == [x \in (DOMAIN m) \cup {k} |-> IF x = k THEN v ELSE m[x]]

\* One pass of the loops of do_analyze that fill alias_map from a table
\* reference.
add_table_ref(ref, r) ==
    IF r.err # "none" THEN r
    ELSE IF ref.tab_name \notin DbTabs
    THEN [r EXCEPT !.err = "TableNotFoundError"]
    ELSE IF ref.alias # "" /\ ref.alias \in DOMAIN r.map
    THEN [r EXCEPT !.err = "DuplicateAliasError"]
    ELSE LET m == IF ref.alias # "" THEN MapPut(r.map, ref.alias, ref.tab_name)
                  ELSE r.map
         IN IF ref.tab_name \in DOMAIN m /\ m[ref.tab_name] # ref.tab_name
            THEN [r EXCEPT !.err = "DuplicateAliasError"]
            ELSE [r EXCEPT !.map = MapPut(m, ref.tab_name, ref.tab_name)]

RECURSIVE build_alias_map(_, _)
build_alias_map(refs, r) ==
    IF refs = <<>> THEN r
    ELSE build_alias_map(Tail(refs), add_table_ref(Head(refs), r))

\* Analyze::get_all_cols
RECURSIVE get_all_cols(_)
get_all_cols(tab_names) ==
    IF tab_names = <<>> THEN <<>>
    ELSE TabCols(Head(tab_names)) \o get_all_cols(Tail(tab_names))

\* The table a qualifier stands for: the alias map's entry, or the
\* qualifier itself.
actual_tab_name_kept(alias_map, tab_name) == tab_name
actual_tab_name(alias_map, tab_name) ==
    IF tab_name \in DOMAIN alias_map THEN alias_map[tab_name] ELSE tab_name

\* A column check that takes the first column of that name and the
\* qualifier as it is written.
check_column_first(all_cols, target, alias_map) ==
    LET hits == {i \in 1..Len(all_cols) :
                    /\ all_cols[i].name = target.col
                    /\ target.tab \in {"", all_cols[i].tab}}
    IN IF hits = {} THEN [err |-> "ColumnNotFoundError", col |-> target]
       ELSE [err |-> "none", col |-> Col(all_cols[Min(hits)].tab, target.col)]

\* Analyze::check_column_with_alias
check_column_with_alias(all_cols, target, alias_map) ==
    IF target.tab = ""
    THEN LET hits == {i \in 1..Len(all_cols) : all_cols[i].name = target.col}
         IN IF Cardinality(hits) > 1
            THEN [err |-> "AmbiguousColumnError", col |-> target]
            ELSE IF hits = {}
            THEN [err |-> "ColumnNotFoundError", col |-> target]
            ELSE [err |-> "none",
                  col |-> Col(all_cols[Min(hits)].tab, target.col)]
    ELSE LET actual == actual_tab_name(alias_map, target.tab)
         IN IF \E i \in 1..Len(all_cols) :
                  all_cols[i].tab = actual /\ all_cols[i].name = target.col
            THEN [err |-> "none", col |-> Col(actual, target.col)]
            ELSE [err |-> "ColumnNotFoundError", col |-> target]

\* The loop of do_analyze over the select list.
RECURSIVE check_select_cols(_, _, _)
check_select_cols(all_cols, cols, alias_map) ==
    IF cols = <<>> THEN [err |-> "none", cols |-> <<>>]
    ELSE LET c == check_column_with_alias(all_cols, Head(cols), alias_map)
             rest == check_select_cols(all_cols, Tail(cols), alias_map)
         IN IF c.err # "none" THEN [err |-> c.err, cols |-> <<>>]
            ELSE IF rest.err # "none" THEN rest
            ELSE [err |-> "none", cols |-> <<c.col>> \o rest.cols]

\* Analyze::can_cast_type
can_cast_type(from, to) ==
    \/ from = to
    \/ from = "int" /\ to = "float"
    \/ from = "float" /\ to = "int"

\* Analyze::cast_value, for a pair of types can_cast_type accepts: an int
\* becomes a float, a float stays what it is.
cast_value(val, to) ==
    IF val.type = "int" /\ to = "float"
    THEN [type |-> "float", val |-> AsFloat("int", val.val)]
    ELSE val

\* The body of the loop of check_clause_with_alias, for one condition.
check_cond_with_alias(all_cols, cond, alias_map) ==
    LET l == check_column_with_alias(all_cols, cond.lhs_col, alias_map)
        r == IF cond.is_rhs_val THEN [err |-> "none", col |-> cond.rhs_col]
             ELSE check_column_with_alias(all_cols, cond.rhs_col, alias_map)
    IN IF l.err # "none" THEN [err |-> l.err, cond |-> cond]
       ELSE IF r.err # "none" THEN [err |-> r.err, cond |-> cond]
       ELSE LET lhs_type == ColTypeOf(l.col.tab, l.col.col)
                rhs_type == IF cond.is_rhs_val THEN cond.rhs_val.type
                            ELSE ColTypeOf(r.col.tab, r.col.col)
                c == [cond EXCEPT !.lhs_col = l.col, !.rhs_col = r.col]
            IN IF lhs_type = rhs_type THEN [err |-> "none", cond |-> c]
               ELSE IF cond.is_rhs_val /\ can_cast_type(rhs_type, lhs_type)
               THEN [err |-> "none",
                     cond |-> [c EXCEPT !.rhs_val = cast_value(@, lhs_type)]]
               ELSE [err |-> "IncompatibleTypeError", cond |-> cond]

\* Analyze::check_clause_with_alias
RECURSIVE check_clause_with_alias(_, _, _)
check_clause_with_alias(all_cols, conds, alias_map) ==
    IF conds = <<>> THEN [err |-> "none", conds |-> <<>>]
    ELSE LET c == check_cond_with_alias(all_cols, Head(conds), alias_map)
             rest == check_clause_with_alias(all_cols, Tail(conds), alias_map)
         IN IF c.err # "none" THEN [err |-> c.err, conds |-> <<>>]
            ELSE IF rest.err # "none" THEN rest
            ELSE [err |-> "none", conds |-> <<c.cond>> \o rest.conds]

\* The tables of the JOIN clauses that the FROM list does not name.
RECURSIVE add_join_tables(_, _)
add_join_tables(tables, jointree) ==
    IF jointree = <<>> THEN tables
    ELSE LET right_table == Head(jointree).right_ref.tab_name
         IN add_join_tables(
              IF \E i \in 1..Len(tables) : tables[i] = right_table
              THEN tables ELSE Append(tables, right_table),
              Tail(jointree))

\* The loop of do_analyze over the ON conditions of the JOIN clauses.
RECURSIVE check_join_conds(_, _, _)
check_join_conds(all_cols, jointree, alias_map) ==
    IF jointree = <<>> THEN [err |-> "none", conds |-> <<>>]
    ELSE LET c == check_clause_with_alias(all_cols, Head(jointree).conds, alias_map)
             rest == check_join_conds(all_cols, Tail(jointree), alias_map)
         IN IF c.err # "none" THEN c
            ELSE IF rest.err # "none" THEN rest
            ELSE [err |-> "none", conds |-> c.conds \o rest.conds]

\* A Query as std::make_shared<Query>() leaves it; no branch of do_analyze
\* assigns is_select_star.
NoQuery ==
    [err |-> "none", tables |-> <<>>, cols |-> <<>>, conds |-> <<>>,
     set_clauses |-> <<>>, table_alias_map |-> <<>>, is_select_star |-> FALSE]

\* Analyze::check_column
check_column(all_cols, target) ==
    IF target.tab = ""
    THEN LET hits == {i \in 1..Len(all_cols) : all_cols[i].name = target.col}
         IN IF Cardinality(hits) > 1
            THEN [err |-> "AmbiguousColumnError", col |-> target]
            ELSE IF hits = {}
            THEN [err |-> "ColumnNotFoundError", col |-> target]
            ELSE [err |-> "none",
                  col |-> Col(all_cols[Min(hits)].tab, target.col)]
    ELSE IF \E i \in 1..Len(all_cols) :
               all_cols[i].tab = target.tab /\ all_cols[i].name = target.col
    THEN [err |-> "none", col |-> target]
    ELSE [err |-> "ColumnNotFoundError", col |-> target]

\* The type test of check_clause on the two resolved sides of a condition.
check_types(cond, l, r) ==
    IF l.err # "none" THEN [err |-> l.err, cond |-> cond]
    ELSE IF r.err # "none" THEN [err |-> r.err, cond |-> cond]
    ELSE LET lhs_type == ColTypeOf(l.col.tab, l.col.col)
             rhs_type == IF cond.is_rhs_val THEN cond.rhs_val.type
                         ELSE ColTypeOf(r.col.tab, r.col.col)
         IN IF /\ lhs_type # rhs_type
               /\ ~can_cast_type(rhs_type, lhs_type)
               /\ ~can_cast_type(lhs_type, rhs_type)
            THEN [err |-> "IncompatibleTypeError", cond |-> cond]
            ELSE [err |-> "none",
                  cond |-> [cond EXCEPT !.lhs_col = l.col, !.rhs_col = r.col]]

\* Analyze::check_clause
RECURSIVE check_clause(_, _)
check_clause(all_cols, conds) ==
    IF conds = <<>> THEN [err |-> "none", conds |-> <<>>]
    ELSE LET c == check_types(Head(conds),
                     check_column(all_cols, Head(conds).lhs_col),
                     IF Head(conds).is_rhs_val
                     THEN [err |-> "none", col |-> Head(conds).rhs_col]
                     ELSE check_column(all_cols, Head(conds).rhs_col))
             rest == check_clause(all_cols, Tail(conds))
         IN IF c.err # "none" THEN [err |-> c.err, conds |-> <<>>]
            ELSE IF rest.err # "none" THEN rest
            ELSE [err |-> "none", conds |-> <<c.cond>> \o rest.conds]

\* The loop of do_analyze over the SET clauses of an UPDATE.
RECURSIVE check_set_clauses(_, _)
check_set_clauses(tab_name, set_clauses) ==
    IF set_clauses = <<>> THEN [err |-> "none", set_clauses |-> <<>>]
    ELSE LET sc == Head(set_clauses)
             type == ColTypeOf(tab_name, sc.col)
             rest == check_set_clauses(tab_name, Tail(set_clauses))
         IN IF type # sc.rhs.type /\ ~can_cast_type(sc.rhs.type, type)
            THEN [err |-> "IncompatibleTypeError", set_clauses |-> <<>>]
            ELSE IF rest.err # "none" THEN rest
            ELSE [err |-> "none",
                  set_clauses |->
                     << [lhs |-> Col(tab_name, sc.col),
                         rhs |-> IF type # sc.rhs.type
                                 THEN cast_value(sc.rhs, type) ELSE sc.rhs] >>
                       \o rest.set_clauses]

\* Analyze::do_analyze on an UPDATE or a DELETE statement.
analyze_dml(x, sets, conds) ==
    IF x.tab_name \notin DbTabs
    THEN [NoQuery EXCEPT !.err = "TableNotFoundError",
                         !.tables = <<x.tab_name>>]
    ELSE IF sets.err # "none"
    THEN [NoQuery EXCEPT !.err = sets.err, !.tables = <<x.tab_name>>]
    ELSE IF conds.err # "none"
    THEN [NoQuery EXCEPT !.err = conds.err, !.tables = <<x.tab_name>>]
    ELSE [NoQuery EXCEPT !.tables = <<x.tab_name>>,
                         !.set_clauses = sets.set_clauses,
                         !.conds = conds.conds]

\* Analyze::do_analyze on a SELECT statement.
analyze_select(x) ==
    LET tables == add_join_tables(
                     [i \in 1..Len(x.table_refs) |-> x.table_refs[i].tab_name],
                     x.jointree)
        am == build_alias_map(
                 x.table_refs \o [i \in 1..Len(x.jointree) |-> x.jointree[i].right_ref],
                 [err |-> "none", map |-> <<>>])
        all_cols == get_all_cols(tables)
        cols == IF x.cols = <<>>
                THEN [err |-> "none",
                      cols |-> [i \in 1..Len(all_cols) |->
                                  Col(all_cols[i].tab, all_cols[i].name)]]
                ELSE check_select_cols(all_cols, x.cols, am.map)
        conds == check_clause_with_alias(all_cols, x.conds, am.map)
        jconds == check_join_conds(all_cols, x.jointree, am.map)
        failed(e) == [NoQuery EXCEPT !.err = e]
    IN IF am.err # "none" THEN failed(am.err)
       ELSE IF cols.err # "none" THEN failed(cols.err)
       ELSE IF conds.err # "none" THEN failed(conds.err)
       ELSE IF jconds.err # "none" THEN failed(jconds.err)
       ELSE [err |-> "none", tables |-> tables, cols |-> cols.cols,
             conds |-> conds.conds \o jconds.conds, set_clauses |-> <<>>,
             table_alias_map |-> am.map, is_select_star |-> FALSE]

\* Analyze::do_analyze
do_analyze(x) ==
    IF x.kind \in {"select", "explain"} THEN analyze_select(x)
    ELSE analyze_dml(x,
            IF x.tab_name \in DbTabs
            THEN check_set_clauses(x.tab_name, x.set_clauses)
            ELSE [err |-> "none", set_clauses |-> <<>>],
            IF x.tab_name \in DbTabs
            THEN check_clause(get_all_cols(<<x.tab_name>>), x.conds)
            ELSE [err |-> "none", conds |-> <<>>])

\* ------------------------------------------------------------- the planner
NullPlan == [kind |-> "null"]
ScanPlan(tag, tab_name, conds, index_col_names) ==
    [kind |-> "Scan", tag |-> tag, tab_name_ |-> tab_name, conds_ |-> conds,
     index_col_names_ |-> index_col_names]
JoinPlan(tag, left, right, conds) ==
    [kind |-> "Join", tag |-> tag, left_ |-> left, right_ |-> right,
     conds_ |-> conds]
FilterPlan(subplan, conds) ==
    [kind |-> "Filter", tag |-> "T_Filter", subplan_ |-> subplan, conds_ |-> conds]
ProjectionPlan(subplan, sel_cols) ==
    [kind |-> "Projection", tag |-> "T_Projection", subplan_ |-> subplan,
     sel_cols_ |-> sel_cols]
SortPlan(subplan, sel_col, is_desc) ==
    [kind |-> "Sort", tag |-> "T_Sort", subplan_ |-> subplan,
     sel_col_ |-> sel_col, is_desc_ |-> is_desc]
DMLPlan(tag, subplan) == [kind |-> "DML", tag |-> tag, subplan_ |-> subplan]
\* The DMLPlan of an EXPLAIN, which carries the alias map and the
\* SELECT * flag of the query.
ExplainPlan(subplan, table_alias_map, is_select_star) ==
    [kind |-> "DML", tag |-> "T_Explain", subplan_ |-> subplan,
     table_alias_map_ |-> table_alias_map, is_select_star_ |-> is_select_star]

\* The column names in the order of a std::set<std::string>.
ColNames == <<"a", "b", "c">>

\* A get_index_cols that reports an index whenever a literal condition
\* names a column of the table.
get_index_cols_any(tab_name, curr_conds) ==
    LET InSet(c) == \E n \in 1..Len(curr_conds) :
                       /\ curr_conds[n].is_rhs_val
                       /\ curr_conds[n].lhs_col.tab = tab_name
                       /\ curr_conds[n].lhs_col.col = c
        index_col_names == SelectSeq(ColNames, InSet)
    IN [exist |-> index_col_names # <<>>, names |-> index_col_names]

\* Planner::get_index_cols
get_index_cols(tab_name, curr_conds) ==
    LET indexed_columns ==
            {curr_conds[n].lhs_col.col : n \in
                {m \in 1..Len(curr_conds) :
                    curr_conds[m].is_rhs_val
                      /\ curr_conds[m].lhs_col.tab = tab_name}}
        InSet(c) == c \in indexed_columns
        index_col_names == SelectSeq(ColNames, InSet)
        single == {i \in 1..Len(index_col_names) :
                      <<index_col_names[i]>> \in catalog[tab_name]}
    IN IF single # {}
       THEN [exist |-> TRUE, names |-> <<index_col_names[Min(single)]>>]
       ELSE IF index_col_names # <<>> /\ index_col_names \in catalog[tab_name]
       THEN [exist |-> TRUE, names |-> index_col_names]
       ELSE [exist |-> FALSE, names |-> index_col_names]

\* pop_conds: the conditions of one table leave the list.
pop_conds(conds, tab_names) ==
    LET Solved(c) == \/ tab_names = c.lhs_col.tab /\ c.is_rhs_val
                     \/ c.lhs_col.tab = c.rhs_col.tab
        Left(c) == ~Solved(c)
    IN [solved |-> SelectSeq(conds, Solved), rest |-> SelectSeq(conds, Left)]

\* The first loop of make_one_rel: one scan plan per table.
RECURSIVE table_scan_executors(_, _)
table_scan_executors(tables, conds) ==
    IF tables = <<>> THEN [scans |-> <<>>, conds |-> conds]
    ELSE LET curr == pop_conds(conds, Head(tables))
             ix == get_index_cols(Head(tables), curr.solved)
             scan == IF ix.exist
                     THEN ScanPlan("T_IndexScan", Head(tables), curr.solved, ix.names)
                     ELSE ScanPlan("T_SeqScan", Head(tables), curr.solved, <<>>)
             rest == table_scan_executors(Tail(tables), curr.rest)
         IN [scans |-> <<scan>> \o rest.scans, conds |-> rest.conds]

\* A pop_scan that returns the scan plan without marking it used.
pop_scan_unmarked(st, table) ==
    LET hits == {i \in 1..Len(st.scans) : st.scans[i].tab_name_ = table}
    IN IF hits = {} THEN [plan |-> NullPlan, st |-> st]
       ELSE [plan |-> st.scans[Min(hits)],
             st |-> [st EXCEPT !.joined_tables = @ \cup {table}]]

\* pop_scan: the first scan plan of that table; it is marked used and its
\* table joined.
pop_scan(st, table) ==
    LET hits == {i \in 1..Len(st.scans) : st.scans[i].tab_name_ = table}
    IN IF hits = {} THEN [plan |-> NullPlan, st |-> st]
       ELSE [plan |-> st.scans[Min(hits)],
             st |-> [st EXCEPT !.scantbl = @ \cup {Min(hits)},
                               !.joined_tables = @ \cup {table}]]

\* The std::swap of the two sides of a condition, with swap_op.
SwapCond(c) ==
    [c EXCEPT !.lhs_col = c.rhs_col, !.rhs_col = c.lhs_col, !.op = swap_op(c.op)]

\* The swap_op map of push_conds, and one that negates the comparison
\* instead of turning it round.
push_conds_swap_op_negated(op) ==
    CASE op = "EQ" -> "EQ" [] op = "NE" -> "NE" [] op = "LT" -> "GE"
      [] op = "GT" -> "LE" [] op = "LE" -> "GT" [] op = "GE" -> "LT"
push_conds_swap_op(op) ==
    CASE op = "EQ" -> "EQ" [] op = "NE" -> "NE" [] op = "LT" -> "GT"
      [] op = "GT" -> "LT" [] op = "LE" -> "GE" [] op = "GE" -> "LE"
\* The swap_op map of the second loop of make_one_rel.
make_one_rel_swap_op(op) ==
    CASE op = "EQ" -> "EQ" [] op = "NE" -> "NE" [] op = "LT" -> "GT"
      [] op = "GT" -> "LT" [] op = "LE" -> "GE" [] op = "GE" -> "LE"

\* push_conds: the condition goes to the lowest join that has both tables.
RECURSIVE push_conds(_, _)
push_conds(cond, p) ==
    IF p.kind = "Scan"
    THEN [res |-> IF p.tab_name_ = cond.lhs_col.tab THEN 1
                  ELSE IF p.tab_name_ = cond.rhs_col.tab THEN 2 ELSE 0,
          plan |-> p]
    ELSE IF p.kind = "Join"
    THEN LET l == push_conds(cond, p.left_)
             r == push_conds(cond, p.right_)
         IN IF l.res = 3 THEN [res |-> 3, plan |-> [p EXCEPT !.left_ = l.plan]]
            ELSE IF r.res = 3 THEN [res |-> 3, plan |-> [p EXCEPT !.right_ = r.plan]]
            ELSE IF l.res = 0 \/ r.res = 0 THEN [res |-> l.res + r.res, plan |-> p]
            ELSE [res |-> 3,
                  plan |-> [p EXCEPT !.conds_ =
                              Append(@, IF l.res = 2
                                          THEN [SwapCond(cond) EXCEPT
                                                  !.op = push_conds_swap_op(cond.op)]
                                          ELSE cond)]]
    ELSE [res |-> 0, plan |-> p]

\* The join of the first join condition, by the algorithm the knobs select.
first_join(cond, st0) ==
    LET l == pop_scan(st0, cond.lhs_col.tab)
        r == pop_scan(l.st, cond.rhs_col.tab)
    IN IF knobs.enable_nestedloop_join
       THEN [r.st EXCEPT !.tree = JoinPlan("T_NestLoop", l.plan, r.plan, <<cond>>)]
       ELSE IF knobs.enable_sortmerge_join
       THEN [r.st EXCEPT !.tree = JoinPlan("T_SortMerge", l.plan, r.plan, <<cond>>)]
       ELSE [r.st EXCEPT !.err = "RMDBError"]

\* The body of the second loop of make_one_rel, for one further condition.
next_join(cond, st0) ==
    LET lnew == cond.lhs_col.tab \notin st0.joined_tables
        l == IF lnew THEN pop_scan(st0, cond.lhs_col.tab)
             ELSE [plan |-> NullPlan, st |-> st0]
        isneedreverse == cond.rhs_col.tab \notin l.st.joined_tables
        r == IF isneedreverse THEN pop_scan(l.st, cond.rhs_col.tab)
             ELSE [plan |-> NullPlan, st |-> l.st]
    IN IF l.plan # NullPlan /\ r.plan # NullPlan
       THEN [r.st EXCEPT !.tree =
               JoinPlan("T_NestLoop",
                        JoinPlan("T_NestLoop", l.plan, r.plan, <<cond>>),
                        st0.tree, <<>>)]
       ELSE IF l.plan # NullPlan \/ r.plan # NullPlan
       THEN IF isneedreverse
            THEN [r.st EXCEPT !.tree =
                    JoinPlan("T_NestLoop", r.plan, st0.tree,
                             <<[SwapCond(cond) EXCEPT
                                  !.op = make_one_rel_swap_op(cond.op)]>>)]
            ELSE [r.st EXCEPT !.tree =
                    JoinPlan("T_NestLoop", l.plan, st0.tree, <<cond>>)]
       ELSE [r.st EXCEPT !.tree = push_conds(cond, st0.tree).plan]

RECURSIVE join_rest(_, _)
join_rest(conds, st) ==
    IF conds = <<>> THEN st
    ELSE join_rest(Tail(conds), next_join(Head(conds), st))

\* The last loop of make_one_rel: the tables no condition brought in.
RECURSIVE join_unused(_, _)
join_unused(i, st) ==
    IF i > Len(st.scans) THEN st
    ELSE join_unused(i + 1,
            IF i \in st.scantbl THEN st
            ELSE [st EXCEPT !.tree =
                    JoinPlan("T_NestLoop", st.scans[i], st.tree, <<>>)])

\* The state of the join loops of make_one_rel before any join: no scan
\* is used, no table is joined.
join_state(scans) ==
    [scans |-> scans, scantbl |-> {}, joined_tables |-> {},
     tree |-> NullPlan, err |-> "none"]

\* The joins of the join conditions: the first one, then the others.
join_conds(conds, f) ==
    IF f.err # "none" THEN f ELSE join_rest(Tail(conds), f)

\* The end of make_one_rel: the tables left over are joined in.
join_result(st1) ==
    IF st1.err # "none" THEN [err |-> st1.err, plan |-> NullPlan]
    ELSE [err |-> "none", plan |-> join_unused(1, st1).tree]

\* make_one_rel after its first loop, on the scan plans and the conditions
\* that loop left.
join_scans(t) ==
    IF Len(t.scans) = 1 THEN [err |-> "none", plan |-> t.scans[1]]
    ELSE join_result(
           IF Len(t.conds) >= 1
           THEN join_conds(t.conds, first_join(Head(t.conds), join_state(t.scans)))
           ELSE [join_state(t.scans) EXCEPT !.tree = t.scans[1], !.scantbl = {1}])

\* Planner::make_one_rel
make_one_rel(q) == join_scans(table_scan_executors(q.tables, q.conds))

\* Planner::extract_conditions_from_plan
RECURSIVE extract_conditions_from_plan(_)
extract_conditions_from_plan(p) ==
    IF p.kind = "Scan" THEN p.conds_
    ELSE IF p.kind = "Join"
    THEN extract_conditions_from_plan(p.left_)
           \o extract_conditions_from_plan(p.right_)
    ELSE <<>>

\* Planner::clear_conditions_from_plan
RECURSIVE clear_conditions_from_plan(_)
clear_conditions_from_plan(p) ==
    IF p.kind = "Scan" THEN [p EXCEPT !.conds_ = <<>>]
    ELSE IF p.kind = "Join"
    THEN [p EXCEPT !.left_ = clear_conditions_from_plan(p.left_),
                   !.right_ = clear_conditions_from_plan(p.right_)]
    ELSE p

\* Planner::collect_table_names_from_plan
RECURSIVE collect_table_names_from_plan(_)
collect_table_names_from_plan(p) ==
    IF p.kind = "Scan" THEN {p.tab_name_}
    ELSE IF p.kind = "Join"
    THEN collect_table_names_from_plan(p.left_)
           \cup collect_table_names_from_plan(p.right_)
    ELSE IF p.kind \in {"Filter", "Projection"}
    THEN collect_table_names_from_plan(p.subplan_)
    ELSE {}

\* Planner::push_filters_down
RECURSIVE push_filters_down(_)
push_filters_down(p) ==
    IF p.kind = "Join"
    THEN LET l == push_filters_down(p.left_)
             r == push_filters_down(p.right_)
             all_conditions ==
                extract_conditions_from_plan([p EXCEPT !.left_ = l, !.right_ = r])
             left_tables == collect_table_names_from_plan(l)
             right_tables == collect_table_names_from_plan(r)
             ToLeft(c) == c.is_rhs_val /\ c.lhs_col.tab \in left_tables
             ToRight(c) == c.is_rhs_val /\ c.lhs_col.tab \notin left_tables
                             /\ c.lhs_col.tab \in right_tables
             left_conditions == SelectSeq(all_conditions, ToLeft)
             right_conditions == SelectSeq(all_conditions, ToRight)
         IN clear_conditions_from_plan(
              [p EXCEPT
                 !.left_ = IF left_conditions # <<>>
                           THEN FilterPlan(l, left_conditions) ELSE l,
                 !.right_ = IF right_conditions # <<>>
                            THEN FilterPlan(r, right_conditions) ELSE r])
    ELSE IF p.kind = "Scan"
    THEN LET OfTable(c) == c.is_rhs_val /\ c.lhs_col.tab = p.tab_name_
             table_conditions == SelectSeq(p.conds_, OfTable)
         IN IF table_conditions # <<>>
            THEN FilterPlan([p EXCEPT !.conds_ = <<>>], table_conditions)
            ELSE p
    ELSE p

\* Planner::apply_projection_pushdown; insert_project_nodes returns the
\* plan as it was.
apply_projection_pushdown(p, q) == ProjectionPlan(p, q.cols)

\* Planner::generate_sort_plan
generate_sort_plan(x, q, p) ==
    IF ~x.has_sort THEN p
    ELSE LET all_cols == get_all_cols(q.tables)
             hits == {i \in 1..Len(all_cols) : all_cols[i].name = x.order_col}
             sel_col == IF hits = {} THEN Col("", "")
                        ELSE Col(all_cols[Min(hits)].tab, all_cols[Min(hits)].name)
         IN SortPlan(p, sel_col, x.order_desc)

\* Planner::join_order_optimization: std::sort of the tables by an estimate
\* that is the same for all of them; any order may come out.
join_order_optimization(q, order) ==
    IF Len(q.tables) <= 2 THEN q
    ELSE [q EXCEPT !.tables = [i \in 1..Len(q.tables) |-> q.tables[order[i]]]]

\* Planner::physical_optimization, after make_one_rel: predicate pushdown,
\* projection, sort.
optimize_rel(x, q, rel) ==
    IF rel.err # "none" THEN rel
    ELSE [err |-> "none",
          plan |-> generate_sort_plan(x, q,
                      apply_projection_pushdown(push_filters_down(rel.plan), q))]

\* Planner::physical_optimization
physical_optimization(x, q) == optimize_rel(x, q, make_one_rel(q))

\* The plan of a SELECT statement is wrapped in a DMLPlan.
select_plan(projection) ==
    IF projection.err # "none" THEN projection
    ELSE [err |-> "none", plan |-> DMLPlan("T_select", projection.plan)]

\* The plan of an EXPLAIN statement is wrapped in a DMLPlan with the alias
\* map and the flag saved from the query.
explain_plan(q, projection) ==
    IF projection.err # "none" THEN projection
    ELSE [err |-> "none",
          plan |-> ExplainPlan(projection.plan, q.table_alias_map,
                               q.is_select_star)]

\* The plan of an UPDATE or a DELETE statement: a scan of the table by the
\* access path get_index_cols selects, under a DMLPlan.
dml_scan_plan(tag, tab_name, conds, ix) ==
    [err |-> "none",
     plan |-> DMLPlan(tag,
                IF ix.exist
                THEN ScanPlan("T_IndexScan", tab_name, conds, ix.names)
                ELSE ScanPlan("T_SeqScan", tab_name, conds, <<>>))]

\* Planner::do_planner on a SELECT, an EXPLAIN, an UPDATE or a DELETE
\* statement.
do_planner(x, q, order) ==
    IF x.kind = "explain"
    THEN explain_plan(q, physical_optimization(x, join_order_optimization(q, order)))
    ELSE IF x.kind = "update"
    THEN dml_scan_plan("T_Update", x.tab_name, q.conds,
                       get_index_cols(x.tab_name, q.conds))
    ELSE IF x.kind = "delete"
    THEN dml_scan_plan("T_Delete", x.tab_name, q.conds,
                       get_index_cols(x.tab_name, q.conds))
    ELSE select_plan(physical_optimization(x, join_order_optimization(q, order)))

\* ------------------------------------------------------- the EXPLAIN text
\* A string is the sequence of its characters; the fixed pieces of a line
\* are one element each.  CharCode is the code of an element's first
\* character, which is what the order of two strings depends on.  Table,
\* alias and column names are one letter long.
CharCode ==
    [ch \in {"\t", "'", ")", ",", ".", "0", "1", "2", "3", "4", "5", "6", "7",
             "8", "9", "<", "=", ">", "Filter(condition=[", "Join(tables=[",
             "Project(columns=[", "Project(columns=[*])", "Scan(table=",
             "Unknown", "])", "],condition=[",
             "a", "b", "c", "d", "s", "t", "u", "v", "w", "x", "y", "z"} |->
        CASE ch = "\t" -> 9 [] ch = "'" -> 39 [] ch = ")" -> 41 [] ch = "," -> 44
          [] ch = "." -> 46 [] ch = "0" -> 48 [] ch = "1" -> 49 [] ch = "2" -> 50
          [] ch = "3" -> 51 [] ch = "4" -> 52 [] ch = "5" -> 53 [] ch = "6" -> 54
          [] ch = "7" -> 55 [] ch = "8" -> 56 [] ch = "9" -> 57 [] ch = "<" -> 60
          [] ch = "=" -> 61 [] ch = ">" -> 62
          [] ch = "Filter(condition=[" -> 70 [] ch = "Join(tables=[" -> 74
          [] ch \in {"Project(columns=[", "Project(columns=[*])"} -> 80
          [] ch = "Scan(table=" -> 83 [] ch = "Unknown" -> 85
          [] ch \in {"])", "],condition=["} -> 93
          [] ch = "a" -> 97 [] ch = "b" -> 98 [] ch = "c" -> 99 [] ch = "d" -> 100
          [] ch = "s" -> 115 [] ch = "t" -> 116 [] ch = "u" -> 117
          [] ch = "v" -> 118 [] ch = "w" -> 119 [] ch = "x" -> 120
          [] ch = "y" -> 121 [] ch = "z" -> 122]

\* operator< of std::string
RECURSIVE StrLess(_, _)
StrLess(a, b) ==
    IF b = <<>> THEN FALSE
    ELSE IF a = <<>> THEN TRUE
    ELSE IF CharCode[Head(a)] # CharCode[Head(b)]
    THEN CharCode[Head(a)] < CharCode[Head(b)]
    ELSE StrLess(Tail(a), Tail(b))

\* std::sort of a vector of strings.
RECURSIVE insert_string(_, _)
insert_string(str, sorted) ==
    IF sorted = <<>> THEN <<str>>
    ELSE IF StrLess(str, Head(sorted)) THEN <<str>> \o sorted
    ELSE <<Head(sorted)>> \o insert_string(str, Tail(sorted))
RECURSIVE sort_strings(_)
sort_strings(strs) ==
    IF strs = <<>> THEN <<>>
    ELSE insert_string(Head(strs), sort_strings(Tail(strs)))

\* The strings of a list with "," between them.
RECURSIVE comma_list(_)
comma_list(strs) ==
    IF strs = <<>> THEN <<>>
    ELSE IF Len(strs) = 1 THEN strs[1]
    ELSE strs[1] \o <<",">> \o comma_list(Tail(strs))

\* ExplainExecutor::get_display_table_name: the key of the first pair of
\* table_alias_map_, a std::map in the order of its keys, that has the
\* table as its value.
get_display_table_name(table_alias_map, table_name) ==
    LET keys == {k \in DOMAIN table_alias_map : table_alias_map[k] = table_name}
    IN IF keys = {} THEN table_name
       ELSE CHOOSE k \in keys : \A j \in keys : ~StrLess(<<j>>, <<k>>)

\* The text of a comparison operator.
op_string(op) ==
    CASE op = "EQ" -> <<"=">> [] op = "NE" -> <<"<", ">">>
      [] op = "LT" -> <<"<">> [] op = "GT" -> <<">">>
      [] op = "LE" -> <<"<", "=">> [] op = "GE" -> <<">", "=">>

Digits == <<"0", "1", "2", "3", "4", "5", "6", "7", "8", "9">>
\* std::to_string of an int or of a float (a float is kept in tenths), and
\* a quoted string, which the model names by a digit.
value_string(val) ==
    IF val.type = "int" THEN <<Digits[val.val + 1]>>
    ELSE IF val.type = "float"
    THEN <<Digits[(val.val \div 10) + 1], ".", Digits[(val.val % 10) + 1],
           "0", "0", "0", "0", "0">>
    ELSE <<"'", Digits[val.val + 1], "'">>

\* A column with the display name of its table.
column_string(table_alias_map, col) ==
    <<get_display_table_name(table_alias_map, col.tab), ".", col.col>>

\* The string of a condition of a Filter node.
condition_string(table_alias_map, cond) ==
    column_string(table_alias_map, cond.lhs_col) \o op_string(cond.op)
      \o (IF cond.is_rhs_val THEN value_string(cond.rhs_val)
          ELSE column_string(table_alias_map, cond.rhs_col))

\* The string of a condition of a Join node: the right side is printed as
\* a column.
join_condition_string(table_alias_map, cond) ==
    column_string(table_alias_map, cond.lhs_col) \o op_string(cond.op)
      \o column_string(table_alias_map, cond.rhs_col)

\* ExplainExecutor::collectTableNames
RECURSIVE collectTableNames(_)
collectTableNames(p) ==
    IF p.kind = "Scan" THEN {p.tab_name_}
    ELSE IF p.kind = "Join"
    THEN collectTableNames(p.left_) \cup collectTableNames(p.right_)
    ELSE IF p.kind \in {"Projection", "Sort", "Filter"}
    THEN collectTableNames(p.subplan_)
    ELSE {}

\* The elements of a std::set<std::string> in its order.
RECURSIVE set_strings(_)
set_strings(S) ==
    IF S = {} THEN <<>>
    ELSE LET least == CHOOSE k \in S : \A j \in S : ~StrLess(<<j>>, <<k>>)
         IN << <<least>> >> \o set_strings(S \ {least})

\* ExplainExecutor::get_plan_name
get_plan_name(table_alias_map, is_select_star, p) ==
    IF p.kind = "Scan" THEN <<"Scan(table=", p.tab_name_, ")">>
    ELSE IF p.kind = "Filter"
    THEN <<"Filter(condition=[">>
           \o comma_list(sort_strings(
                 [n \in 1..Len(p.conds_) |->
                    condition_string(table_alias_map, p.conds_[n])]))
           \o <<"])">>
    ELSE IF p.kind = "Projection"
    THEN IF is_select_star \/ p.sel_cols_ = <<>>
         THEN <<"Project(columns=[*])">>
         ELSE <<"Project(columns=[">>
                \o comma_list(sort_strings(
                      [i \in 1..Len(p.sel_cols_) |->
                         column_string(table_alias_map, p.sel_cols_[i])]))
                \o <<"])">>
    ELSE IF p.kind = "Join"
    THEN <<"Join(tables=[">>
           \o comma_list(set_strings(collectTableNames(p)))
           \o <<"],condition=[">>
           \o comma_list(sort_strings(
                 [n \in 1..Len(p.conds_) |->
                    join_condition_string(table_alias_map, p.conds_[n])]))
           \o <<"])">>
    ELSE <<"Unknown">>

\* The children of a node as build_plan_tree_string collects them.
child_plans(p) ==
    IF p.kind \in {"Projection", "Filter", "Sort"}
    THEN IF p.subplan_ = NullPlan THEN <<>> ELSE <<p.subplan_>>
    ELSE IF p.kind = "Join"
    THEN (IF p.left_ = NullPlan THEN <<>> ELSE <<p.left_>>)
           \o (IF p.right_ = NullPlan THEN <<>> ELSE <<p.right_>>)
    ELSE <<>>

\* The children left in the order in which they were collected.
keep_children(table_alias_map, is_select_star, children) == children

\* The std::sort of the children by their names; a node has two at most.
sort_children(table_alias_map, is_select_star, children) ==
    IF /\ Len(children) = 2
       /\ StrLess(get_plan_name(table_alias_map, is_select_star, children[2]),
                  get_plan_name(table_alias_map, is_select_star, children[1]))
    THEN <<children[2], children[1]>>
    ELSE children

\* ExplainExecutor::build_plan_tree_string: the lines added to plan_output_.
RECURSIVE build_plan_tree_string(_, _, _, _)
RECURSIVE build_children(_, _, _, _)
build_children(table_alias_map, is_select_star, children, indent) ==
    IF children = <<>> THEN <<>>
    ELSE build_plan_tree_string(table_alias_map, is_select_star,
                                Head(children), indent)
           \o build_children(table_alias_map, is_select_star,
                             Tail(children), indent)
build_plan_tree_string(table_alias_map, is_select_star, p, indent) ==
    IF p = NullPlan THEN <<>>
    ELSE << [i \in 1..indent |-> "\t"]
              \o get_plan_name(table_alias_map, is_select_star, p) >>
           \o build_children(table_alias_map, is_select_star,
                 sort_children(table_alias_map, is_select_star, child_plans(p)),
                 indent + 1)

\* -------------------------------------------------------------- the portal
NullExec == [kind |-> "null"]

\* The position of each index column in the table's schema.
ColIndexes(tab, names) ==
    [i \in 1..Len(names) |-> get_col(TabCols(tab), Col(tab, names[i]))]

\* Portal::convert_plan_executor.  A constructor handed a null child
\* dereferences it: crash.
RECURSIVE convert_plan_executor(_)
convert_plan_executor(p) ==
    IF p.kind = "Projection"
    THEN LET c == convert_plan_executor(p.subplan_)
         IN IF c.crash \/ c.exec = NullExec
            THEN [exec |-> NullExec, crash |-> TRUE]
            ELSE [exec |-> ProjectionExecutor(c.exec, p.sel_cols_), crash |-> FALSE]
    ELSE IF p.kind = "Scan"
    THEN [exec |-> IF p.tag = "T_SeqScan"
                   THEN SeqScanExecutor(p.tab_name_, p.conds_)
                   ELSE IndexScanExecutor(p.tab_name_, p.conds_,
                           ColIndexes(p.tab_name_, p.index_col_names_)),
          crash |-> FALSE]
    ELSE IF p.kind = "Join"
    THEN LET l == convert_plan_executor(p.left_)
             r == convert_plan_executor(p.right_)
         IN IF l.crash \/ r.crash \/ l.exec = NullExec \/ r.exec = NullExec
            THEN [exec |-> NullExec, crash |-> TRUE]
            ELSE [exec |-> NestedLoopJoinExecutor(l.exec, r.exec, p.conds_),
                  crash |-> FALSE]
    ELSE IF p.kind = "Sort"
    THEN LET c == convert_plan_executor(p.subplan_)
         IN IF c.crash \/ c.exec = NullExec
            THEN [exec |-> NullExec, crash |-> TRUE]
            ELSE [exec |-> SortExecutor(c.exec, <<p.sel_col_>>, <<p.is_desc_>>, "keep"),
                  crash |-> FALSE]
    ELSE [exec |-> NullExec, crash |-> FALSE]

NoPortal ==
    [tag |-> "none", sel_cols |-> <<>>, root |-> NullExec, crash |-> FALSE,
     plan |-> NullPlan]

\* Portal::start on a DML plan with tag T_select: the subplan is cast to a
\* ProjectionPlan, translated, and its sel_cols_ read.
select_portal(dml_plan) ==
    LET p == IF dml_plan.subplan_.kind = "Projection" THEN dml_plan.subplan_
             ELSE NullPlan
        root == convert_plan_executor(p)
    IN IF p = NullPlan THEN [NoPortal EXCEPT !.crash = TRUE]
       ELSE [tag |-> "PORTAL_ONE_SELECT", sel_cols |-> p.sel_cols_,
             root |-> root.exec, crash |-> root.crash, plan |-> dml_plan]

\* Portal::start on a DML plan: T_Explain gives a utility command that
\* holds the plan, T_select a tree of executors.
Portal_start(dml_plan) ==
    IF dml_plan.tag = "T_Explain"
    THEN [tag |-> "PORTAL_CMD_UTILITY", sel_cols |-> <<>>, root |-> NullExec,
          crash |-> FALSE, plan |-> dml_plan]
    ELSE select_portal(dml_plan)

\* The EXPLAIN executor of a plan: it is given the subplan, the alias map
\* and the SELECT * flag of the DMLPlan, and its beginTuple builds the text.
explain_executor(dml_plan) ==
    Explain_beginTuple(
      ExplainExecutor(
        build_plan_tree_string(dml_plan.table_alias_map_,
                               dml_plan.is_select_star_, dml_plan.subplan_, 0)))

\* ------------------------------------------------- the statements planned
Ref(tab_name, alias) == [tab_name |-> tab_name, alias |-> alias]
SelectStmt(table_refs, cols, conds, jointree, has_sort) ==
    [kind |-> "select", tab_name |-> "", set_clauses |-> <<>>,
     table_refs |-> table_refs, cols |-> cols, conds |-> conds,
     jointree |-> jointree, has_sort |-> has_sort, order_col |-> "a",
     order_desc |-> FALSE]
\* UPDATE tab_name SET set_clauses WHERE conds
UpdateStmt(tab_name, set_clauses, conds) ==
    [SelectStmt(<<>>, <<>>, conds, <<>>, FALSE) EXCEPT
        !.kind = "update", !.tab_name = tab_name, !.set_clauses = set_clauses]
\* DELETE FROM tab_name WHERE conds
DeleteStmt(tab_name, conds) ==
    [SelectStmt(<<>>, <<>>, conds, <<>>, FALSE) EXCEPT
        !.kind = "delete", !.tab_name = tab_name]
NoStmt == SelectStmt(<<>>, <<>>, <<>>, <<>>, FALSE)

\* SELECTs over t, with or without an alias, its columns qualified or not.
OneTableStmts ==
    UNION {
      {SelectStmt(<<Ref("t", al)>>, cols, conds, <<>>, srt) :
          cols \in { <<>>, <<Col(q, "a")>>, <<Col(q, "b"), Col("", "a")>> },
          conds \in { <<>>, <<Lit(q, "a", "EQ", "int", 1)>>,
                      <<Lit(q, "b", "GT", "int", 1)>>,
                      <<Lit(q, "a", "EQ", "str", 0)>>,
                      <<ColCond(Col(q, "a"), "LT", Col(q, "b"))>>,
                      <<ColCond(Col(q, "a"), "LE", Col("", "a")),
                        Lit("", "a", "NE", "int", 2)>> },
          srt \in BOOLEAN}
      : al \in {"", "x", "t", "u"}, q \in {"", "t", "x", "u"} }

\* SELECTs over t and u.
TwoTableStmts ==
    UNION {
      {SelectStmt(<<Ref("t", al[1]), Ref("u", al[2])>>, cols, conds, <<>>, srt) :
          cols \in { <<>>, <<Col(q[1], "a")>> },
          conds \in { <<>>,
                      <<ColCond(Col(q[1], "a"), "EQ", Col(q[2], "a"))>>,
                      <<ColCond(Col(q[2], "a"), "LT", Col(q[1], "a")),
                        Lit(q[1], "a", "GT", "int", 1)>> },
          srt \in BOOLEAN}
      : al \in {<<"", "">>, <<"x", "y">>, <<"x", "x">>, <<"x", "t">>, <<"u", "">>},
        q \in {<<"t", "u">>, <<"x", "y">>, <<"x", "u">>} }

\* SELECTs over t, u and v, a self join, a JOIN ... ON, a missing table.
OtherStmts ==
    {SelectStmt(<<Ref("t", ""), Ref("u", ""), Ref("v", "")>>, <<>>, conds, <<>>, srt) :
        conds \in { <<>>,
                    <<ColCond(Col("t", "a"), "EQ", Col("u", "a"))>>,
                    <<ColCond(Col("u", "a"), "EQ", Col("v", "a"))>>,
                    <<ColCond(Col("t", "a"), "EQ", Col("u", "a")),
                      ColCond(Col("u", "a"), "LT", Col("v", "a"))>>,
                    <<ColCond(Col("t", "a"), "EQ", Col("u", "a")),
                      ColCond(Col("v", "a"), "LT", Col("t", "a"))>>,
                    <<ColCond(Col("t", "a"), "EQ", Col("u", "a")),
                      ColCond(Col("u", "a"), "GE", Col("t", "a")),
                      Lit("v", "a", "EQ", "int", 1)>> },
        srt \in BOOLEAN}
      \cup {SelectStmt(<<Ref("t", "x"), Ref("t", al)>>,
                       <<Col("x", "a")>>,
                       <<ColCond(Col("x", "a"), "EQ", Col(al, "a"))>>, <<>>, FALSE) :
              al \in {"y", "t"}}
      \cup {SelectStmt(<<Ref("t", al)>>, <<Col("t", "a")>>, <<>>,
                       << [right_ref |-> Ref("u", "y"),
                           conds |-> <<ColCond(Col(q, "a"), "EQ", Col("y", "a"))>>] >>,
                       FALSE) :
              al \in {"", "x"}, q \in {"t", "x"}}
      \cup {SelectStmt(<<Ref("w", "x")>>, <<>>, <<>>, <<>>, FALSE)}

\* SELECT * over two table references, the second one in the FROM list or
\* the right-hand table of a JOIN, with every choice of aliases.
AliasStmts ==
    UNION {
      {SelectStmt(<<Ref(tabs[1], al[1]), Ref(tabs[2], al[2])>>,
                  <<>>, <<>>, <<>>, FALSE),
       SelectStmt(<<Ref(tabs[1], al[1])>>, <<>>, <<>>,
                  << [right_ref |-> Ref(tabs[2], al[2]), conds |-> <<>>] >>,
                  FALSE)}
      : tabs \in {"t", "u"} \X {"t", "u"},
        al \in {"", "x", "t", "u"} \X {"", "x", "t", "u"} }

\* SELECT of one column, bare or qualified, over tables with different
\* columns: t (a, b) and s (a, c).
ResolveStmts ==
    {SelectStmt(refs, <<Col(q, c)>>, <<>>, <<>>, FALSE) :
        refs \in { <<Ref("t", "")>>, <<Ref("s", "")>>,
                   <<Ref("t", ""), Ref("u", "")>>,
                   <<Ref("t", ""), Ref("s", "")>>,
                   <<Ref("t", "x"), Ref("s", "y")>> },
        q \in {"", "t", "s", "u", "x", "y", "z"},
        c \in {"a", "b", "c", "d"}}

\* EXPLAIN of the SELECT statements.
ExplainStmts ==
    {[x EXCEPT !.kind = "explain"] :
        x \in OneTableStmts \cup TwoTableStmts \cup OtherStmts \cup ResolveStmts
                \cup {SelectStmt(<<Ref("t", "s")>>, <<Col("s", "a")>>,
                                 <<Lit("s", "b", "GT", "float", 15),
                                   Lit("s", "a", "EQ", "int", 1)>>, <<>>, FALSE),
                      SelectStmt(<<Ref("u", ""), Ref("t", "")>>, <<>>,
                                 <<ColCond(Col("u", "a"), "LT", Col("t", "a")),
                                   Lit("t", "b", "GT", "float", 15),
                                   Lit("t", "a", "EQ", "int", 1)>>, <<>>, FALSE)}}

\* One predicate that compares two columns of a table, in the WHERE clause
\* of a SELECT, an UPDATE or a DELETE, or in the ON clause of a JOIN.
TypeStmts ==
    UNION {
      {SelectStmt(<<Ref(tab, "")>>, <<>>, <<cond>>, <<>>, FALSE),
       UpdateStmt(tab, << [col |-> "a", rhs |-> [type |-> "int", val |-> 1]] >>,
                  <<cond>>),
       DeleteStmt(tab, <<cond>>)}
      : tab \in {"t", "s"},
        cond \in {ColCond(Col(q, l), "EQ", Col(q, r)) :
                    q \in {"", "t", "s"}, l \in {"a", "b", "c"}, r \in {"a", "b", "c"}} }
      \cup {SelectStmt(<<Ref("t", "")>>, <<>>, <<>>,
                       << [right_ref |-> Ref("s", ""),
                           conds |-> <<ColCond(Col("t", l), "EQ", Col("s", r))>>] >>,
                       FALSE) :
              l \in {"a", "b"}, r \in {"a", "c"}}
      \cup {UpdateStmt("t", << [col |-> "b", rhs |-> v] >>, <<>>) :
              v \in {[type |-> "int", val |-> 1], [type |-> "str", val |-> 0]}}
      \cup {DeleteStmt("w", <<>>)}

\* SELECTs over several tables whose predicates form a cycle, leave a table
\* unconnected, connect the tables pair by pair, or compare two columns of
\* one of the tables.
JoinStmts ==
    {SelectStmt(refs, <<>>, conds, <<>>, FALSE) :
        refs \in { <<Ref("u", ""), Ref("t", "")>>,
                   <<Ref("t", ""), Ref("u", ""), Ref("v", "")>> },
        conds \in { <<ColCond(Col("t", "b"), "LT", Col("t", "b"))>>,
                    <<ColCond(Col("t", "a"), "LT", Col("u", "a")),
                      Lit("t", "a", "EQ", "int", 1),
                      Lit("u", "b", "GE", "int", 2)>> }}
      \cup {SelectStmt(<<Ref("t", ""), Ref("u", ""), Ref("v", "")>>, <<>>,
                       <<ColCond(Col("t", "a"), "EQ", Col("u", "a")),
                         ColCond(Col("u", "a"), "LE", Col("v", "a")),
                         ColCond(Col("v", "a"), "GT", Col("t", "a"))>>,
                       <<>>, FALSE),
            SelectStmt(<<Ref("t", ""), Ref("u", ""), Ref("v", ""), Ref("s", "")>>,
                       <<>>,
                       <<ColCond(Col("t", "a"), "EQ", Col("u", "a")),
                         ColCond(Col("v", "a"), "NE", Col("s", "a"))>>,
                       <<>>, FALSE)}

\* UPDATE and DELETE statements with literal predicates on t.
DmlStmts ==
    UNION {
      {UpdateStmt("t", << [col |-> "a", rhs |-> [type |-> "int", val |-> 1]] >>,
                  conds),
       DeleteStmt("t", conds)}
      : conds \in { <<Lit("", "a", "EQ", "int", 1)>>,
                    <<Lit("t", "b", "LT", "float", 15)>>,
                    <<Lit("t", "b", "LT", "float", 15),
                      Lit("", "a", "GT", "int", 1)>> } }

\* SELECTs over t with a FLOAT literal against the INT column a.
CoerceStmts ==
    {SelectStmt(<<Ref("t", "")>>, <<>>, <<Lit(q, "a", op, "float", v)>>,
                <<>>, FALSE) :
        q \in {"", "t"}, op \in {"EQ", "GT"}, v \in {15, -15}}

Stmts ==
    DmlStmts \cup CoerceStmts \cup OneTableStmts \cup TwoTableStmts \cup OtherStmts \cup AliasStmts
      \cup ResolveStmts \cup TypeStmts \cup ExplainStmts \cup JoinStmts

\* The indexes of the tables: none, or on t one on (a), one on (a, b), or
\* one on (b) and one on (b, a).
Catalogs ==
    {[tab \in DbTabs |-> IF tab = "t" THEN ix ELSE {}] :
        ix \in {{}, {<<"a">>}, {<<"a", "b">>}, {<<"b">>, <<"b", "a">>}}}

\* The orders std::sort may leave n tables in.
TableOrders(n) ==
    IF n <= 2 THEN {[i \in 1..n |-> i]}
    ELSE {o \in [1..n -> 1..n] : \A i, j \in 1..n : i # j => o[i] # o[j]}

PlanIdle ==
    /\ sql = NoStmt
    /\ knobs = [enable_nestedloop_join |-> TRUE, enable_sortmerge_join |-> FALSE]
    /\ catalog = [tab \in DbTabs |-> {}]
    /\ query = NoQuery
    /\ plan = NullPlan
    /\ portal = NoPortal
    /\ stage = "idle"

\* A statement has been parsed; the knobs have the values of planner.h.
PlanInit ==
    /\ sql \in Stmts
    /\ knobs = [enable_nestedloop_join |-> TRUE, enable_sortmerge_join |-> FALSE]
    /\ catalog \in Catalogs
    /\ query = NoQuery
    /\ plan = NullPlan
    /\ portal = NoPortal
    /\ stage = "parsed"

\* Planner::set_enable_nestedloop_join
set_enable_nestedloop_join(set_val) ==
    /\ stage = "parsed"
    /\ knobs' = [knobs EXCEPT !.enable_nestedloop_join = set_val]
    /\ UNCHANGED <<sql, catalog, query, plan, portal, stage>>

\* Planner::set_enable_sortmerge_join
set_enable_sortmerge_join(set_val) ==
    /\ stage = "parsed"
    /\ knobs' = [knobs EXCEPT !.enable_sortmerge_join = set_val]
    /\ UNCHANGED <<sql, catalog, query, plan, portal, stage>>

\* The statement is analysed.
DoAnalyze ==
    /\ stage = "parsed"
    /\ query' = do_analyze(sql)
    /\ stage' = IF query'.err = "none" THEN "analysed" ELSE "failed"
    /\ UNCHANGED <<sql, knobs, catalog, plan, portal>>

\* The query of the statement is planned; the plan of an UPDATE or a
\* DELETE waits for the portal to collect its record ids.
DoPlanner(order) ==
    /\ stage = "analysed"
    /\ LET r == do_planner(sql, query, order)
       IN /\ plan' = r.plan
          /\ stage' = IF r.err # "none" THEN "plan_failed"
                      ELSE IF sql.kind \in {"update", "delete"} THEN "dml_planned"
                      ELSE "planned"
    /\ UNCHANGED <<sql, knobs, catalog, query, portal>>

\* The plan of a SELECT or an EXPLAIN is turned into executors.
PortalStart ==
    /\ stage = "planned"
    /\ portal' = Portal_start(plan)
    /\ stage' = "started"
    /\ UNCHANGED <<sql, knobs, catalog, query, plan>>

\* Portal::run on the utility command of an EXPLAIN: the EXPLAIN executor
\* is built and begun.
RunExplain ==
    /\ stage = "started"
    /\ portal.tag = "PORTAL_CMD_UTILITY"
    /\ portal' = [portal EXCEPT !.root = explain_executor(portal.plan)]
    /\ stage' = "explained"
    /\ UNCHANGED <<sql, knobs, catalog, query, plan>>

\* ------------------------------------------------------------ the catalog
\* An empty database.
CatIdle ==
    /\ tabs_ = <<>>
    /\ fhs_ = <<>>
    /\ ihs_ = {}
    /\ ddl_err = "none"

\* The tables, column definitions and index column lists of the DDL
\* statements: a column may be named twice in a CREATE TABLE, and an index
\* may name a column the table does not have.
DdlTabs == {"t", "u"}
DdlColDefs ==
    { <<[name |-> "a", type |-> "int", len |-> ColLen("int")]>>,
      <<[name |-> "a", type |-> "int", len |-> ColLen("int")],
        [name |-> "b", type |-> "str", len |-> ColLen("str")]>>,
      <<[name |-> "b", type |-> "str", len |-> ColLen("str")],
        [name |-> "a", type |-> "int", len |-> ColLen("int")]>>,
      <<[name |-> "a", type |-> "int", len |-> ColLen("int")],
        [name |-> "a", type |-> "str", len |-> ColLen("str")]>> }
DdlColNames == { <<"a">>, <<"b">>, <<"a", "b">>, <<"b", "a">>, <<"c">> }

\* A function without one of its pairs.
MapErase(f, k) == [x \in DOMAIN f \ {k} |-> f[x]]

\* DbMeta::is_table, TabMeta::is_col, TabMeta::get_col and TabMeta::is_index:
\* an index is looked up by the ordered list of its column names.
is_table(tab_name) == tab_name \in DOMAIN tabs_
is_col(tab, col_name) == \E i \in 1..Len(tab.cols) : tab.cols[i].name = col_name
TabMeta_get_col(tab, col_name) ==
    tab.cols[Min({i \in 1..Len(tab.cols) : tab.cols[i].name = col_name})]
IndexColNames(index) == [i \in 1..Len(index.cols) |-> index.cols[i].name]
is_index(tab, col_names) ==
    \E i \in 1..Len(tab.indexes) : IndexColNames(tab.indexes[i]) = col_names
\* IxManager::get_index_name: a name for the table and the column names.
get_index_name(tab_name, col_names) == <<tab_name, col_names>>

\* The record size create_table hands to create_file: the offset after the
\* last column.
RECURSIVE record_size(_, _)
record_size(col_defs, curr_offset) ==
    IF col_defs = <<>> THEN curr_offset
    ELSE record_size(Tail(col_defs), curr_offset + Head(col_defs).len)

\* SmManager::create_table
create_table(tab_name, col_defs) ==
    IF is_table(tab_name)
    THEN /\ ddl_err' = "TableExistsError"
         /\ UNCHANGED <<tabs_, fhs_, ihs_>>
    ELSE /\ tabs_' = MapPut(tabs_, tab_name,
                        [name |-> tab_name,
                         cols |-> create_table_cols(tab_name, col_defs, 0),
                         indexes |-> <<>>])
         /\ fhs_' = MapPut(fhs_, tab_name, record_size(col_defs, 0))
         /\ ddl_err' = "none"
         /\ UNCHANGED ihs_

\* SmManager::drop_table
drop_table(tab_name) ==
    IF ~is_table(tab_name)
    THEN /\ ddl_err' = "TableNotFoundError"
         /\ UNCHANGED <<tabs_, fhs_, ihs_>>
    ELSE /\ ihs_' = ihs_ \ {get_index_name(tab_name, IndexColNames(tabs_[tab_name].indexes[i])) :
                               i \in 1..Len(tabs_[tab_name].indexes)}
         /\ fhs_' = MapErase(fhs_, tab_name)
         /\ tabs_' = MapErase(tabs_, tab_name)
         /\ ddl_err' = "none"

\* The end of create_index: the IndexMeta is appended to the table, and the
\* handle is kept unless one of that name is open.
add_index(tab_name, tab, col_names, idx_cols) ==
    /\ tabs_' = [tabs_ EXCEPT ![tab_name].indexes =
                    Append(@, [tab_name |-> tab_name,
                               col_tot_len |-> SumLenOf(idx_cols),
                               col_num |-> Len(idx_cols), cols |-> idx_cols])]
    /\ IF get_index_name(tab_name, col_names) \in ihs_
       THEN ddl_err' = "IndexExistsError" /\ UNCHANGED ihs_
       ELSE /\ ihs_' = ihs_ \cup {get_index_name(tab_name, col_names)}
            /\ ddl_err' = "none"
    /\ UNCHANGED fhs_

\* SmManager::create_index
create_index(tab_name, col_names) ==
    IF ~is_table(tab_name)
    THEN /\ ddl_err' = "TableNotFoundError"
         /\ UNCHANGED <<tabs_, fhs_, ihs_>>
    ELSE IF is_index(tabs_[tab_name], col_names)
    THEN /\ ddl_err' = "IndexExistsError"
         /\ UNCHANGED <<tabs_, fhs_, ihs_>>
    ELSE IF \E i \in 1..Len(col_names) : ~is_col(tabs_[tab_name], col_names[i])
    THEN /\ ddl_err' = "ColumnNotFoundError"
         /\ UNCHANGED <<tabs_, fhs_, ihs_>>
    ELSE add_index(tab_name, tabs_[tab_name], col_names,
                   [i \in 1..Len(col_names) |->
                       TabMeta_get_col(tabs_[tab_name], col_names[i])])

\* TabMeta::get_index_meta and the erase of it: the first index with these
\* column names is removed.
erase_index(indexes_, col_names) ==
    LET at == Min({i \in 1..Len(indexes_) : IndexColNames(indexes_[i]) = col_names})
    IN SubSeq(indexes_, 1, at - 1) \o SubSeq(indexes_, at + 1, Len(indexes_))

\* SmManager::drop_index
drop_index(tab_name, col_names) ==
    IF ~is_table(tab_name)
    THEN /\ ddl_err' = "TableNotFoundError"
         /\ UNCHANGED <<tabs_, fhs_, ihs_>>
    ELSE IF \/ ~is_index(tabs_[tab_name], col_names)
            \/ get_index_name(tab_name, col_names) \notin ihs_
    THEN /\ ddl_err' = "none"
         /\ UNCHANGED <<tabs_, fhs_, ihs_>>
    ELSE /\ ihs_' = ihs_ \ {get_index_name(tab_name, col_names)}
         /\ tabs_' = [tabs_ EXCEPT ![tab_name].indexes = erase_index(@, col_names)]
         /\ ddl_err' = "none"
         /\ UNCHANGED fhs_

\* ----------------------------------------------- DML statements side by side
\* Two sessions run one UPDATE or DELETE each on table t.  Portal::start
\* drains the scan of the statement into a rid vector and builds the
\* executor; Portal::run calls Next, whose loop takes the rids one by one.
\* DeleteExecutor takes the shared table lock in its constructor,
\* UpdateExecutor takes none; shared locks do not exclude each other, so
\* the steps of the two sessions interleave freely.
Sessions == 1..2
NoSession == [kind |-> "none", conds |-> <<>>, sets |-> <<>>, rids |-> <<>>,
              rid_idx_ |-> 0, pc |-> "idle", err |-> "none",
              start |-> <<>>, hit |-> <<>>]

\* SeqScan drained by the portal: the live records that satisfy the
\* conditions, in the order of the file.
seq_scan_rids(h, conds) ==
    [err |-> "none",
     rids |-> ScanOrder({r \in Live(h) : eval_conds(TabCols("t"), conds, h[r])},
                        TRUE)]

\* The leaf level of an index handle: its entries in key order.
IndexLeaf(ix) ==
    CHOOSE s \in [1..Cardinality(ix) -> ix] :
        \A i, j \in 1..Cardinality(ix) : i < j => KeyLess(s[i][1], s[j][1])

\* lower_iid and upper_iid of IndexScanExecutor::beginTuple on that leaf.
CursorRange(leaf, b) ==
    IF b.has_lower \/ b.has_upper
    THEN [lower |-> IF b.has_lower
                    THEN IF b.lower_inclusive
                         THEN lower_bound(leaf, <<b.lower_val.val>>)
                         ELSE upper_bound(leaf, <<b.lower_val.val>>)
                    ELSE 0,
          upper |-> IF b.has_upper
                    THEN IF b.upper_inclusive
                         THEN upper_bound(leaf, <<b.upper_val.val>>)
                         ELSE lower_bound(leaf, <<b.upper_val.val>>)
                    ELSE Len(leaf)]
    ELSE [lower |-> 0, upper |-> Len(leaf)]

\* The rids of the entries from position p to the upper cursor whose
\* records satisfy the conditions; get_record fails on a record that is
\* gone.
RECURSIVE index_scan_from(_, _, _, _, _, _)
index_scan_from(p, upper, leaf, h, conds, rids) ==
    IF p >= upper THEN [err |-> "none", rids |-> rids]
    ELSE LET rid == leaf[p + 1][2]
         IN IF h[rid] = NoRec THEN [err |-> "RecordNotFound", rids |-> rids]
            ELSE index_scan_from(p + 1, upper, leaf, h, conds,
                    IF eval_conds(TabCols("t"), conds, h[rid])
                    THEN Append(rids, rid) ELSE rids)

\* IndexScan on the index on (a) drained by the portal.  The WHERE clauses
\* of the sessions have one bound on a, so lower_iid never passes upper_iid.
index_scan_rids(h, ix, conds) ==
    LET leaf == IndexLeaf(ix)
        r == CursorRange(leaf, Bounds(NoBounds, conds, 1, "a", "int"))
    IN index_scan_from(r.lower, r.upper, leaf, h, conds, <<>>)

\* The index the planner scans t by: the one on (a), if the statement has
\* a literal condition on a.
ScanIndex(conds) ==
    {i \in 1..Len(indexes) :
        /\ indexes[i] = <<1>>
        /\ \E n \in 1..Len(conds) :
              conds[n].is_rhs_val /\ conds[n].lhs_col.col = "a"}

\* A drain that meets the rows of an index scan a second time.
portal_rids_again(h, conds) ==
    IF ScanIndex(conds) = {} THEN seq_scan_rids(h, conds)
    ELSE LET s == index_scan_rids(h, idx[Min(ScanIndex(conds))], conds)
         IN [s EXCEPT !.rids = @ \o @]

\* Portal::start, T_Update and T_Delete: the loop for (scan->beginTuple();
\* !scan->is_end(); scan->nextTuple()) rids.push_back(scan->rid()).
portal_rids(h, conds) ==
    IF ScanIndex(conds) = {} THEN seq_scan_rids(h, conds)
    ELSE index_scan_rids(h, idx[Min(ScanIndex(conds))], conds)

\* Portal::start on the plan of an UPDATE or a DELETE.
StartDml(s, kind, sets, conds) ==
    /\ thr[s].pc = "idle"
    /\ LET scan == portal_rids(heap, conds)
       IN /\ thr' = [thr EXCEPT ![s] =
                       [NoSession EXCEPT
                          !.kind = kind, !.conds = conds, !.sets = sets,
                          !.rids = scan.rids, !.err = scan.err, !.start = heap,
                          !.pc = IF scan.err # "none" THEN "failed"
                                 ELSE IF scan.rids = <<>> THEN "done"
                                 ELSE "collected"]]
          /\ lock_shared' = IF kind = "delete" /\ scan.err = "none"
                            THEN lock_shared + 1 ELSE lock_shared
    /\ UNCHANGED <<indexes, heap, idx, dml, err, ix_calls, snap, write_set, nops>>

\* What a session notes of a rid its executor is about to change: whether
\* the record is there and whether it satisfies the WHERE clause.
Hit(s, rid) ==
    [rid |-> rid, live |-> heap[rid] # NoRec,
     sat |-> heap[rid] # NoRec
               /\ eval_conds(TabCols("t"), thr[s].conds, heap[rid])]

\* One round of the loop of UpdateExecutor::Next.
RunUpdate(s) ==
    /\ thr[s].pc = "collected" /\ thr[s].kind = "update"
    /\ LET rid == thr[s].rids[thr[s].rid_idx_ + 1]
           r == update_loop(0, heap, idx, write_set, <<>>, <<rid>>,
                            thr[s].sets, {})
       IN /\ heap' = r.heap
          /\ idx' = r.idx
          /\ write_set' = r.ws
          /\ thr' = [thr EXCEPT
                       ![s].rid_idx_ = @ + r.rid_idx,
                       ![s].err = r.err,
                       ![s].hit = IF r.rid_idx = 1 THEN Append(@, Hit(s, rid)) ELSE @,
                       ![s].pc = IF r.err # "none" THEN "failed"
                                 ELSE IF thr[s].rid_idx_ + 1 = Len(thr[s].rids)
                                 THEN "done" ELSE "collected"]
    /\ UNCHANGED <<indexes, dml, err, ix_calls, snap, lock_shared, nops>>

\* One round of the loop of DeleteExecutor::Next.
RunDelete(s) ==
    /\ thr[s].pc = "collected" /\ thr[s].kind = "delete"
    /\ LET rid == thr[s].rids[thr[s].rid_idx_ + 1]
           r == delete_loop(1, heap, <<rid>>)
       IN /\ heap' = r.heap
          /\ thr' = [thr EXCEPT
                       ![s].rid_idx_ = IF r.err = "none" THEN @ + 1 ELSE @,
                       ![s].err = r.err,
                       ![s].hit = IF r.err = "none" THEN Append(@, Hit(s, rid)) ELSE @,
                       ![s].pc = IF r.err # "none" THEN "failed"
                                 ELSE IF thr[s].rid_idx_ + 1 = Len(thr[s].rids)
                                 THEN "done" ELSE "collected"]
    /\ UNCHANGED <<indexes, idx, dml, err, ix_calls, snap, write_set,
                   lock_shared, nops>>

\* The WHERE clauses and SET lists of the statements of the sessions.
ConcConds ==
    { <<>>, <<Lit("t", "a", "EQ", "int", 1)>>, <<Lit("t", "a", "GE", "int", 2)>>,
      <<Lit("t", "b", "LT", "float", 15)>> }
ConcSets ==
    { << [col |-> 1, rhs |-> [type |-> "int", val |-> 3]] >>,
      << [col |-> 2, rhs |-> [type |-> "int", val |-> 1]] >> }

ConcIdle == thr = [s \in Sessions |-> NoSession]

\* Table t holds the stored rows, with no index or with an index on (a)
\* that holds the entry of every row; no statement has started.
ConcInit ==
    /\ indexes \in { <<>>, << <<1>> >> }
    /\ heap = [r \in Rids |-> IF r <= Len(StoredRows) THEN StoredRows[r] ELSE NoRec]
    /\ idx = [i \in 1..Len(indexes) |->
                {<<IndexKey(indexes[i], heap[r]), r>> : r \in Live(heap)}]
    /\ dml = NoDml
    /\ err = "none"
    /\ ix_calls = <<>>
    /\ snap = NoSnap
    /\ write_set = <<>>
    /\ lock_shared = 0
    /\ nops = 0
    /\ ConcIdle

\* ------------------------------------------------------ specifications
Init == DmlInit /\ ExecIdle /\ PlanIdle /\ CatIdle /\ ConcIdle
Next ==
    \/ \E values \in ValueLists :
          NewInsert(values) /\ UNCHANGED <<execvars, planvars, catvars, concvars>>
    \/ \E fail \in FailSets : InsertNext(fail) /\ UNCHANGED <<execvars, planvars, catvars, concvars>>
    \/ \E rids \in RidVectors : NewDelete(rids) /\ UNCHANGED <<execvars, planvars, catvars, concvars>>
    \/ DeleteNext /\ UNCHANGED <<execvars, planvars, catvars, concvars>>
    \/ \E rids \in RidVectors, sets \in SetLists :
          NewUpdate(sets, rids) /\ UNCHANGED <<execvars, planvars, catvars, concvars>>
    \/ \E fail \in FailSets : UpdateNext(fail) /\ UNCHANGED <<execvars, planvars, catvars, concvars>>
Spec == Init /\ [][Next]_vars

ExecNext ==
    \/ \E m \in {"rows", "rids", "free"} :
          CallBeginTuple(m) /\ UNCHANGED <<dmlvars, planvars, catvars, concvars>>
    \/ CallNext /\ UNCHANGED <<dmlvars, planvars, catvars, concvars>>
    \/ CallNextTuple /\ UNCHANGED <<dmlvars, planvars, catvars, concvars>>
InitExec == ExecInit /\ DmlIdle /\ PlanIdle /\ CatIdle /\ ConcIdle
SpecExec == InitExec /\ [][ExecNext]_vars

PlanNext ==
    \/ \E set_val \in BOOLEAN :
          set_enable_nestedloop_join(set_val) /\ UNCHANGED <<dmlvars, execvars, catvars, concvars>>
    \/ \E set_val \in BOOLEAN :
          set_enable_sortmerge_join(set_val) /\ UNCHANGED <<dmlvars, execvars, catvars, concvars>>
    \/ DoAnalyze /\ UNCHANGED <<dmlvars, execvars, catvars, concvars>>
    \/ \E order \in TableOrders(Len(query.tables)) :
          DoPlanner(order) /\ UNCHANGED <<dmlvars, execvars, catvars, concvars>>
    \/ PortalStart /\ UNCHANGED <<dmlvars, execvars, catvars, concvars>>
    \/ RunExplain /\ UNCHANGED <<dmlvars, execvars, catvars, concvars>>
InitPlan == PlanInit /\ DmlIdle /\ ExecIdle /\ CatIdle /\ ConcIdle
SpecPlan == InitPlan /\ [][PlanNext]_vars

CatNext ==
    \/ \E tab_name \in DdlTabs, col_defs \in DdlColDefs :
          create_table(tab_name, col_defs) /\ UNCHANGED <<dmlvars, execvars, planvars, concvars>>
    \/ \E tab_name \in DdlTabs :
          drop_table(tab_name) /\ UNCHANGED <<dmlvars, execvars, planvars, concvars>>
    \/ \E tab_name \in DdlTabs, col_names \in DdlColNames :
          create_index(tab_name, col_names) /\ UNCHANGED <<dmlvars, execvars, planvars, concvars>>
    \/ \E tab_name \in DdlTabs, col_names \in DdlColNames :
          drop_index(tab_name, col_names) /\ UNCHANGED <<dmlvars, execvars, planvars, concvars>>
InitCat == CatIdle /\ DmlIdle /\ ExecIdle /\ PlanIdle /\ ConcIdle
SpecCat == InitCat /\ [][CatNext]_vars

ConcNext ==
    \/ \E s \in Sessions, sets \in ConcSets, conds \in ConcConds :
          StartDml(s, "update", sets, conds)
             /\ UNCHANGED <<execvars, planvars, catvars>>
    \/ \E s \in Sessions, conds \in ConcConds :
          StartDml(s, "delete", <<>>, conds)
             /\ UNCHANGED <<execvars, planvars, catvars>>
    \/ \E s \in Sessions : RunUpdate(s) /\ UNCHANGED <<execvars, planvars, catvars>>
    \/ \E s \in Sessions : RunDelete(s) /\ UNCHANGED <<execvars, planvars, catvars>>
InitConc == ConcInit /\ ExecIdle /\ PlanIdle /\ CatIdle
SpecConc == InitConc /\ [][ConcNext]_vars

\* ========================================================= properties
\* An InsertExecutor::Next call that found insert_entry returning INVALID.
InsertFailedStep ==
    /\ dml.kind = "insert" /\ dml.nnext = 0
    /\ dml'.kind = "insert" /\ dml'.nnext = 1
    /\ \E n \in 1..Len(ix_calls') :
          ix_calls'[n][1] = "insert_entry" /\ ix_calls'[n][4] = INVALID_PAGE_ID

\* C1: INSERT atomicity.  When insert_entry on the k-th index returns the
\* INVALID sentinel, InsertExecutor::Next ends with an error, the heap and
\* every index are as before the call, the rid just inserted holds no
\* record, and none of the indexes 1..k-1 holds an entry for the row's key.
C1_InsertAtomic ==
    [][InsertFailedStep =>
          /\ err' = "RMDBError"
          /\ heap' = heap
          /\ idx' = idx
          /\ heap'[dml'.rid_] = NoRec
          /\ \A n \in 1..Len(ix_calls') :
                (ix_calls'[n][1] = "insert_entry"
                    /\ ix_calls'[n][4] = INVALID_PAGE_ID)
                  => \A j \in 1..(ix_calls'[n][2] - 1) :
                        \A e \in idx'[j] :
                           e[1] # IndexKey(indexes[j], InsertRec(dml.values))]_vars

\* An INSERT failed on an index after an earlier index had taken the entry.
C1_Witness ==
    /\ dml.kind = "insert" /\ dml.nnext = 1 /\ err = "RMDBError"
    /\ \E n \in 1..Len(ix_calls) : ix_calls[n][1] = "delete_entry"
    /\ Live(heap) # {}

\* C2: round trip.  An INSERT followed by a DELETE whose rid vector holds
\* exactly the inserted row leaves the heap and every index as they were
\* before the INSERT.
C2_RoundTrip ==
    (dml.kind = "delete" /\ dml.nnext = 1 /\ snap.valid
        /\ dml.rids = <<snap.rid>>)
      => (heap = snap.heap /\ idx = snap.idx)

\* C8: INSERT arity.  Constructing an InsertExecutor with a value list whose
\* length differs from the column count raises InvalidValueCount, leaves no
\* executor to run, and adds no heap record and no index entry.
C8_InsertArity ==
    [][(nops' = nops + 1 /\ dml'.kind \in {"none", "insert"}
          /\ Len(dml'.values) # NCols)
        => (err' = "InvalidValueCount" /\ dml'.kind = "none"
              /\ heap' = heap /\ idx' = idx)]_vars

\* An INSERT with one value too many was refused on a table that has rows.
C8_Witness ==
    /\ dml.kind = "none" /\ nops > 0 /\ err = "InvalidValueCount"
    /\ Len(dml.values) = NCols + 1
    /\ Live(heap) # {}

\* A call of UpdateExecutor::Next.
UpdateStep == dml.kind = "update" /\ dml'.kind = "update"
                /\ dml'.nnext = dml.nnext + 1
SetCols(sets) == {sets[n].col : n \in 1..Len(sets)}
IndexCols(i) == {indexes[i][j] : j \in 1..Len(indexes[i])}

\* C9: UPDATE key preservation.  On an index whose columns include no SET
\* target column UPDATE calls neither delete_entry nor insert_entry, and
\* the index content is unchanged.
C9_UpdateKeyPreserved ==
    [][UpdateStep =>
          \A i \in 1..Len(indexes) :
             (IndexCols(i) \cap SetCols(dml.sets) = {}) =>
                /\ idx'[i] = idx[i]
                /\ \A n \in 1..Len(ix_calls') : ix_calls'[n][2] # i]_vars

\* An UPDATE changed a row and maintained one index while another index has
\* no SET target column.
C9_Witness ==
    /\ dml.kind = "update" /\ dml.nnext = 1 /\ dml.rid_idx_ >= 1
    /\ ix_calls # <<>>
    /\ \E i \in 1..Len(indexes) : IndexCols(i) \cap SetCols(dml.sets) = {}

\* The value a SET clause names is the value the row holds in that column.
SameValue(rec, c) ==
    /\ c.rhs.type # "str"
    /\ AsFloat(c.rhs.type, c.rhs.val) = AsFloat(ColTypes[c.col], rec[c.col])

\* C10: UPDATE to the current value.  An UPDATE all of whose SET clauses name
\* the value the row already holds, for every rid of its vector, writes the
\* same rows to the heap and makes no delete_entry and no insert_entry call.
C10_UpdateSameValue ==
    [][(UpdateStep
         /\ \A m \in 1..Len(dml.rids) : \A n \in 1..Len(dml.sets) :
               heap[dml.rids[m]] # NoRec
                 /\ SameValue(heap[dml.rids[m]], dml.sets[n]))
        => (heap' = heap /\ idx' = idx /\ ix_calls' = <<>> /\ err' = "none")]_vars

\* An UPDATE of a row of an indexed table has run to its end, and the undo
\* records show that each SET value was the value of the row before.
C10_Witness ==
    /\ dml.kind = "update" /\ dml.nnext = 1
    /\ dml.rid_idx_ = Len(dml.rids) /\ Len(dml.rids) >= 1
    /\ Len(write_set) >= Len(dml.rids)
    /\ \A m \in 1..Len(dml.rids) :
          LET w == write_set[Len(write_set) - Len(dml.rids) + m]
          IN w.rid = dml.rids[m]
               /\ \A n \in 1..Len(dml.sets) : SameValue(w.rec, dml.sets[n])
    /\ \E i \in 1..Len(indexes) : IndexCols(i) \cap SetCols(dml.sets) # {}
    /\ \E n \in 1..Len(dml.sets) : dml.sets[n].rhs.type # ColTypes[dml.sets[n].col]

\* ------------------------------------------- what a tree is to produce
BagOf(s) ==
    [x \in {s[i] : i \in 1..Len(s)} |-> Cardinality({i \in 1..Len(s) : s[i] = x})]

\* The rows of s that satisfy every condition, in the order of s.
RECURSIVE RowsWhere(_, _, _)
RowsWhere(s, rec_cols, conds) ==
    IF s = <<>> THEN <<>>
    ELSE LET rest == RowsWhere(Tail(s), rec_cols, conds)
         IN IF \A n \in 1..Len(conds) : eval_cond(rec_cols, conds[n], Head(s))
            THEN <<Head(s)>> \o rest ELSE rest

\* Every pair of a row of L and a row of R, the rows of R outermost.
PairRows(L, R) ==
    [k \in 1..(Len(L) * Len(R)) |->
        L[((k - 1) % Len(L)) + 1] \o R[((k - 1) \div Len(L)) + 1]]

\* Row a is to come before row b: on the first sort column where their
\* values differ, a has the smaller one (the larger one if the column is
\* descending).
RECURSIVE KeyBefore(_, _, _, _)
KeyBefore(e, a, b, i) ==
    IF i > Len(e.sel_cols) THEN FALSE
    ELSE LET c == get_col(Schema(e.prev), e.sel_cols[i])
         IN IF a[c] = b[c] THEN KeyBefore(e, a, b, i + 1)
            ELSE IF e.is_desc_[i] THEN a[c] > b[c] ELSE a[c] < b[c]
KeyEqual(e, a, b) == ~KeyBefore(e, a, b, 1) /\ ~KeyBefore(e, b, a, 1)

\* The rows of s ordered by the sort columns of e, ties in the order of s.
RECURSIVE RowsSortedBy(_, _)
RowsSortedBy(e, s) ==
    IF s = <<>> THEN <<>>
    ELSE LET first == Min({i \in 1..Len(s) :
                             \A j \in 1..Len(s) : ~KeyBefore(e, s[j], s[i], 1)})
             rest == [k \in 1..(Len(s) - 1) |-> IF k < first THEN s[k] ELSE s[k + 1]]
         IN <<s[first]>> \o RowsSortedBy(e, rest)

\* The row sequence the contract of each executor type describes.
RECURSIVE Rows(_)
Rows(e) ==
    CASE e.kind = "seqscan" -> RowsWhere(db[e.tab], TabCols(e.tab), e.conds)
      [] e.kind = "ixscan" ->
            LET leaf == Leaf(e.tab, e.icols)
            IN RowsWhere([i \in 1..Len(leaf) |-> db[e.tab][leaf[i][2]]],
                         TabCols(e.tab), e.conds)
      [] e.kind = "filter" -> RowsWhere(Rows(e.child), Schema(e.child), e.conds)
      [] e.kind = "nlj" ->
            RowsWhere(PairRows(Rows(e.left), Rows(e.right)), Schema(e), e.conds)
      [] e.kind = "proj" ->
            LET r == Rows(e.prev)
            IN [k \in 1..Len(r) |->
                  [i \in 1..Len(e.sel_cols) |->
                      r[k][get_col(Schema(e.prev), e.sel_cols[i])]]]
      [] e.kind = "sort" ->
            RowsSortedBy(e, Rows(e.prev))
      [] e.kind = "explain" -> << <<e.plan_text>> >>

\* The caller's loop has come to its end, or the process has.
RunOver ==
    Crashed(ex) \/ (last_call \in {"begin", "nextTuple"} /\ exIsEnd(ex))

\* C3: Next() is idempotent.  For every executor type, two Next() calls in a
\* row without a nextTuple() between them return equal records and leave
\* is_end() and the cursor as they were before the first call.
C3_NextIdempotent ==
    (ex.kind \in {"ixscan", "filter", "nlj", "proj", "sort", "explain"}
        /\ Len(nexts) = 2)
      => /\ nexts[1] = nexts[2]
         /\ exIsEnd(ex) = at_next[1]
         /\ ex = at_next[2]

\* C4: after beginTuple(), repeated calls included, the executor is at the
\* first row of its result, and is_end() is true exactly if there is none.
C4_BeginPositions ==
    (ex.kind \in {"nlj", "filter", "sort", "proj", "ixscan"}
        /\ last_call = "begin")
      => /\ ~Crashed(ex)
         /\ exIsEnd(ex) <=> (Rows(ex) = <<>>)
         /\ ~exIsEnd(ex) => exNext(ex).rec = Rows(ex)[1]

\* C5: a nested-loop join yields, as a multiset, the pairs of a left and a
\* right row that satisfy its conditions; without conditions their number
\* is |L| * |R|; with an empty child is_end() holds right after beginTuple().
C5_JoinResult ==
    (ex.kind = "nlj" /\ mode = "rows")
      => /\ RunOver =>
              /\ ~Crashed(ex)
              /\ BagOf(out) = BagOf(Rows(ex))
              /\ ex.conds = <<>> =>
                    Len(out) = Len(Rows(ex.left)) * Len(Rows(ex.right))
         /\ (last_call = "begin"
               /\ (Rows(ex.left) = <<>> \/ Rows(ex.right) = <<>>))
              => exIsEnd(ex)

\* C6: for any literal conditions, contradictory ones included, the rids an
\* index scan yields are, as a multiset, the rids of the rows a sequential
\* scan with the same conditions yields.
C6_IndexScanAsSeqScan ==
    (ex.kind = "ixscan" /\ mode = "rids" /\ RunOver)
      => /\ ~Crashed(ex)
         /\ BagOf(rids_out) =
              BagOf(LET h == db[ex.tab]
                        hit(r) == eval_conds(TabCols(ex.tab), ex.conds, h[r])
                        n == Cardinality({r \in 1..Len(h) : hit(r)})
                    IN IF n = 0 THEN <<>>
                       ELSE CHOOSE s \in [1..n -> {r \in 1..Len(h) : hit(r)}] :
                              \A i, j \in 1..n : i < j => s[i] < s[j])

\* C7: a filter with conditions C yields exactly the rows of its child that
\* satisfy C, in the child's order, whether the child is a sequential scan,
\* an index scan without conditions or a join.
C7_FilterSubsequence ==
    (ex.kind = "filter" /\ mode = "rows" /\ RunOver)
      => /\ ~Crashed(ex)
         /\ out = RowsWhere(Rows(ex.child), Schema(ex.child), ex.conds)

\* A call of UpdateExecutor::Next in which insert_entry returned INVALID.
UpdateFailedStep ==
    /\ UpdateStep
    /\ \E n \in 1..Len(ix_calls') :
          ix_calls'[n][1] = "insert_entry" /\ ix_calls'[n][4] = INVALID_PAGE_ID

\* C11: UPDATE failure is rolled back per tuple.  When insert_entry of the
\* new key fails on some index while a tuple is updated, the statement ends
\* with an error, the heap row at that rid is unchanged, and every index
\* that held the entry (old key -> rid) of the tuple still holds it.
C11_UpdateRollback ==
    [][UpdateFailedStep =>
          LET rid == dml.rids[dml'.rid_idx_ + 1]
          IN /\ err' = "RMDBError"
             /\ heap'[rid] = heap[rid]
             /\ \A i \in 1..Len(indexes) :
                   LET old == <<IndexKey(indexes[i], heap[rid]), rid>>
                   IN old \in idx[i] => old \in idx'[i]]_vars

\* C12: UPDATE undo log.  A successful first Next() of an UPDATE over the rid
\* vector r1..rn appends exactly n write records, in rid-vector order, the
\* i-th being (UPDATE, ri, row ri as it was before the statement); a further
\* Next() on the same executor appends nothing and changes nothing.
C12_UpdateUndoLog ==
    [][/\ (UpdateStep /\ dml.nnext = 0 /\ err' = "none") =>
             /\ Len(write_set') = Len(write_set) + Len(dml.rids)
             /\ SubSeq(write_set', 1, Len(write_set)) = write_set
             /\ \A i \in 1..Len(dml.rids) :
                   write_set'[Len(write_set) + i] =
                      [type |-> "UPDATE_TUPLE", rid |-> dml.rids[i],
                       rec |-> heap[dml.rids[i]]]
       /\ (UpdateStep /\ dml.nnext >= 1 /\ err = "none") =>
             /\ heap' = heap /\ idx' = idx /\ write_set' = write_set
             /\ ix_calls' = <<>> /\ err' = "none"]_vars

\* An UPDATE over two rids changed both rows, and Next() was called again.
C12_Witness ==
    /\ dml.kind = "update" /\ dml.nnext = 2 /\ err = "none"
    /\ Len(dml.rids) = 2 /\ Len(write_set) = 2
    /\ dml.rids[1] > dml.rids[2]
    /\ \A i \in 1..2 : write_set[i].rec # heap[write_set[i].rid]

\* C13: DML locking.  Every Insert, Update and Delete executor holds a shared
\* lock on its table by the end of its construction (at least one
\* lock_shared_on_table call has been made on the table's fd), hence before
\* its first heap or index mutation.
C13_DmlLocked ==
    dml.kind \in {"insert", "update", "delete"} => lock_shared > 0

\* beginTuple() of a Sort executor has run.
SortBeginStep == ex.kind = "sort" /\ ex'.kind = "sort" /\ last_call' = "begin"
\* The rows the child of the Sort executor produces in that beginTuple().
SortInput == Sort_collect(exBegin(ex.prev), <<>>).tuples

\* C14: sort stability.  Two rows whose sort keys are equal on every sort
\* column are in the output of the Sort executor in the relative order in
\* which the child produced them.
C14_SortStable ==
    [][(SortBeginStep /\ ~Crashed(ex')) =>
          LET rows == SortInput
              sorted == ex'.sorted_tuples
              pos(r) == CHOOSE i \in 1..Len(rows) : rows[i] = r
          IN \A k, l \in 1..Len(sorted) :
                (k < l /\ KeyEqual(ex, sorted[k], sorted[l]))
                   => pos(sorted[k]) < pos(sorted[l])]_vars

\* C15: sort order.  After beginTuple() the rows of the Sort executor are a
\* permutation of the rows of its child and are ordered by the sort keys in
\* order, each ascending unless its desc flag is set; with no child row the
\* executor is at its end right after beginTuple().
C15_SortOrder ==
    [][SortBeginStep =>
          LET rows == SortInput
              sorted == ex'.sorted_tuples
          IN /\ ~Crashed(ex')
             /\ rows = <<>> => exIsEnd(ex')
             /\ rows # <<>> =>
                   /\ ~exIsEnd(ex')
                   /\ BagOf(sorted) = BagOf(rows)
                   /\ \A k, l \in 1..Len(sorted) :
                         k < l => ~KeyBefore(ex, sorted[l], sorted[k], 1)]_vars

\* ------------------------------------------------- what a plan is to be
\* The nodes of a plan.
RECURSIVE SubPlans(_)
SubPlans(p) ==
    {p} \cup
      (IF p.kind = "Join" THEN SubPlans(p.left_) \cup SubPlans(p.right_)
       ELSE IF p.kind \in {"Filter", "Projection", "Sort", "DML"}
       THEN SubPlans(p.subplan_)
       ELSE {})
JoinNodes(p) == {n \in SubPlans(p) : n.kind = "Join"}
Planned == stage \in {"planned", "started"}

\* C16: SELECT plan shape.  The plan wrapped by Dml(Select) has a Project
\* node as its root, with or without ORDER BY; with ORDER BY a Sort node
\* lies below that Project.
C16_SelectPlanShape ==
    Planned =>
        /\ plan.kind = "DML"
        /\ plan.subplan_.kind = "Projection"
        /\ sql.has_sort =>
              \E n \in SubPlans(plan.subplan_.subplan_) : n.kind = "Sort"

\* C17: the portal's translation is total.  convert_plan_executor returns an
\* executor for every node of a plan below Dml(Select); a Filter node
\* becomes a Filter executor with the node's conditions, a Join(SortMerge)
\* node a sort-merge join executor.
C17_ConvertTotal ==
    Planned =>
        \A n \in SubPlans(plan.subplan_) :
            LET c == convert_plan_executor(n)
            IN /\ ~c.crash
               /\ c.exec # NullExec
               /\ n.kind = "Filter" =>
                     c.exec.kind = "filter" /\ c.exec.conds = n.conds_
               /\ (n.kind = "Join" /\ n.tag = "T_SortMerge") =>
                     c.exec.kind = "sortmergejoin"

\* C18: join algorithm selection.  For a SELECT over two or more tables:
\* with neither join algorithm enabled planning fails, join predicates or
\* not; with only sort-merge enabled every Join node is SortMerge; with
\* nested-loop enabled every Join node is NestLoop.
C18_JoinAlgorithm ==
    (stage \in {"planned", "started", "plan_failed"} /\ Len(query.tables) >= 2)
      => IF ~knobs.enable_nestedloop_join /\ ~knobs.enable_sortmerge_join
         THEN stage = "plan_failed"
         ELSE /\ stage # "plan_failed"
              /\ \A n \in JoinNodes(plan) :
                    n.tag = IF knobs.enable_nestedloop_join
                            THEN "T_NestLoop" ELSE "T_SortMerge"

\* C19: left-deep join tree.  In a plan for two or more tables the right
\* child of every Join node is a table scan, possibly under a Filter; the
\* join tree built before is the left child.
C19_LeftDeep ==
    (Planned /\ Len(query.tables) >= 2)
      => \A n \in JoinNodes(plan) :
            \/ n.right_.kind = "Scan"
            \/ n.right_.kind = "Filter" /\ n.right_.subplan_.kind = "Scan"

\* The table references of a statement, those of its JOIN clauses included.
AllRefs(x) == x.table_refs \o [i \in 1..Len(x.jointree) |-> x.jointree[i].right_ref]
HasAlias(x) == \E i \in 1..Len(AllRefs(x)) : AllRefs(x)[i].alias # ""
\* No alias is used twice or is the name of another table of the statement.
FreshAliases(x) ==
    \A i, j \in 1..Len(AllRefs(x)) :
        (i # j /\ AllRefs(x)[i].alias # "")
           => /\ AllRefs(x)[j].alias # AllRefs(x)[i].alias
              /\ AllRefs(x)[j].tab_name # AllRefs(x)[i].alias
\* The statement with every alias qualifier replaced by its table and the
\* aliases removed.
Unalias(x) ==
    LET refs == AllRefs(x)
        real(q) == IF q # "" /\ \E i \in 1..Len(refs) : refs[i].alias = q
                   THEN refs[CHOOSE i \in 1..Len(refs) : refs[i].alias = q].tab_name
                   ELSE q
        col(c) == Col(real(c.tab), c.col)
        cond(c) == [c EXCEPT !.lhs_col = col(@),
                             !.rhs_col = IF c.is_rhs_val THEN @ ELSE col(@)]
        conds(cs) == [n \in 1..Len(cs) |-> cond(cs[n])]
    IN [x EXCEPT
          !.table_refs = [i \in 1..Len(@) |-> Ref(@[i].tab_name, "")],
          !.cols = [i \in 1..Len(@) |-> col(@[i])],
          !.conds = conds(@),
          !.jointree = [i \in 1..Len(@) |->
                          [right_ref |-> Ref(@[i].right_ref.tab_name, ""),
                           conds |-> conds(@[i].conds)]]]

TablesExist(x) ==
    \A i \in 1..Len(AllRefs(x)) : AllRefs(x)[i].tab_name \in DbTabs
\* Two references use the same alias, or an alias is the name of a
\* different table that the statement references.
DuplicateAlias(x) ==
    \E i, j \in 1..Len(AllRefs(x)) :
        /\ AllRefs(x)[i].alias # ""
        /\ \/ i # j /\ AllRefs(x)[j].alias = AllRefs(x)[i].alias
           \/ /\ AllRefs(x)[j].tab_name = AllRefs(x)[i].alias
              /\ AllRefs(x)[j].tab_name # AllRefs(x)[i].tab_name
Analysed == stage \notin {"idle", "parsed"}

\* C21: duplicate alias rejection.  Analysis of a SELECT over existing
\* tables fails with DuplicateAlias when two table references use the same
\* alias or an alias is the name of a different referenced table, whatever
\* the order of the references; otherwise it does not, and the alias map
\* takes every alias and every referenced table name to the table name.
C21_DuplicateAlias ==
    (Analysed /\ TablesExist(sql))
      => IF DuplicateAlias(sql)
         THEN query.err = "DuplicateAliasError"
         ELSE /\ query.err # "DuplicateAliasError"
              /\ query.err = "none" =>
                    \A i \in 1..Len(AllRefs(sql)) :
                        LET ref == AllRefs(sql)[i]
                            m == query.table_alias_map
                        IN /\ ref.tab_name \in DOMAIN m
                           /\ m[ref.tab_name] = ref.tab_name
                           /\ ref.alias # "" =>
                                 (ref.alias \in DOMAIN m /\ m[ref.alias] = ref.tab_name)

\* The references of the statement name pairwise different tables.
DistinctTables(x) ==
    \A i, j \in 1..Len(AllRefs(x)) :
        i # j => AllRefs(x)[i].tab_name # AllRefs(x)[j].tab_name
\* The referenced tables that have a column of that name.
TablesWith(x, c) ==
    {AllRefs(x)[i].tab_name : i \in
        {j \in 1..Len(AllRefs(x)) :
            \E k \in 1..Len(TabCols(AllRefs(x)[j].tab_name)) :
                TabCols(AllRefs(x)[j].tab_name)[k].name = c}}
\* The table a qualifier names: the table of the reference with that alias,
\* or the qualifier itself.
Qualified(x, q) ==
    LET al == {i \in 1..Len(AllRefs(x)) : AllRefs(x)[i].alias = q}
    IN IF al = {} THEN q ELSE AllRefs(x)[CHOOSE i \in al : TRUE].tab_name
\* What the resolution of a column of the statement has to give.
Resolution(x, col) ==
    LET having == TablesWith(x, col.col)
    IN IF col.tab = ""
       THEN IF having = {} THEN [err |-> "ColumnNotFoundError", tab |-> ""]
            ELSE IF Cardinality(having) > 1
            THEN [err |-> "AmbiguousColumnError", tab |-> ""]
            ELSE [err |-> "none", tab |-> CHOOSE t \in having : TRUE]
       ELSE IF Qualified(x, col.tab) \in having
            THEN [err |-> "none", tab |-> Qualified(x, col.tab)]
            ELSE [err |-> "ColumnNotFoundError", tab |-> ""]
\* The statement has nothing to check but its first select column.
OnlyFirstCol(x) ==
    /\ Len(x.cols) = 1 /\ x.conds = <<>>
    /\ \A i \in 1..Len(x.jointree) : x.jointree[i].conds = <<>>

AsSelect(x) ==
    IF x.kind = "select" THEN x
    ELSE [x EXCEPT !.table_refs = <<Ref(x.tab_name, "")>>]
\* The ON conditions of the JOIN clauses.
RECURSIVE OnConds(_)
OnConds(jointree) ==
    IF jointree = <<>> THEN <<>>
    ELSE Head(jointree).conds \o OnConds(Tail(jointree))
\* The predicates of a statement: WHERE, then JOIN ON.
Predicates(x) == x.conds \o OnConds(x.jointree)
\* Equal types, or INT against FLOAT in either direction.
Compatible(lhs_type, rhs_type) ==
    lhs_type = rhs_type \/ {lhs_type, rhs_type} = {"int", "float"}
\* The statement's only predicate compares two columns that resolve, and
\* nothing else of the statement fails to resolve.
OneColumnPredicate(x) ==
    /\ TablesExist(x) /\ DistinctTables(x)
    /\ \A i \in 1..Len(x.cols) : Resolution(x, x.cols[i]).err = "none"
    /\ Len(Predicates(x)) = 1
    /\ ~Predicates(x)[1].is_rhs_val
    /\ Resolution(x, Predicates(x)[1].lhs_col).err = "none"
    /\ Resolution(x, Predicates(x)[1].rhs_col).err = "none"
PredicateCompatible(x) ==
    LET p == Predicates(x)[1]
    IN Compatible(ColTypeOf(Resolution(x, p.lhs_col).tab, p.lhs_col.col),
                  ColTypeOf(Resolution(x, p.rhs_col).tab, p.rhs_col.col))

\* C23: the column-against-column type rule.  Analysis of a predicate that
\* compares two columns succeeds iff the two types are equal or both are
\* numeric, and fails with IncompatibleType otherwise, in the WHERE and
\* JOIN ON clauses of a SELECT and in the WHERE clause of an UPDATE or a
\* DELETE alike.
C23_ColumnTypes ==
    (/\ Analysed /\ OneColumnPredicate(AsSelect(sql))
     /\ query.err # "DuplicateAliasError")
      => IF PredicateCompatible(AsSelect(sql))
         THEN query.err = "none"
         ELSE query.err = "IncompatibleTypeError"

\* The statement was analysed and planned, and its EXPLAIN text was built.
Explained == stage = "explained"
\* The lines of the EXPLAIN text without their indentation.
ExplainLines ==
    [n \in 1..Len(portal.root.plan_output_) |->
        SelectSeq(portal.root.plan_output_[n], LAMBDA ch : ch # "\t")]
\* The qualifiers that a line prints before the "." of a column.
QualifiersOf(line) ==
    {line[i - 1] : i \in {j \in 2..Len(line) :
                            line[j] = "." /\ \A d \in 1..10 : line[j - 1] # Digits[d]}}
\* The name under which the statement knows a referenced table: its alias
\* where it has one, its name otherwise.
DisplayNames(x) ==
    {IF AllRefs(x)[i].alias # "" THEN AllRefs(x)[i].alias
     ELSE AllRefs(x)[i].tab_name : i \in 1..Len(AllRefs(x))}
RealNames(x) == {AllRefs(x)[i].tab_name : i \in 1..Len(AllRefs(x))}

\* C24: EXPLAIN alias display.  In the text of an EXPLAIN over pairwise
\* different tables, every column in a Filter condition, a Join condition
\* or a Project list is qualified by the alias of its table where the
\* table has one and by the table's name otherwise, and every Scan line
\* prints the name of a table.
C24_ExplainAliasDisplay ==
    (Explained /\ DistinctTables(sql))
      => \A n \in 1..Len(ExplainLines) :
            /\ QualifiersOf(ExplainLines[n]) \subseteq DisplayNames(sql)
            /\ ExplainLines[n][1] = "Scan(table="
                  => ExplainLines[n][2] \in RealNames(sql)

\* A plan with the children of the joins at the depths in swapped exchanged
\* and, if reversed, the conditions of every node in the opposite order.
Reverse(seq) == [i \in 1..Len(seq) |-> seq[Len(seq) + 1 - i]]
RECURSIVE Reordered(_, _, _, _)
Reordered(p, swapped, reversed, depth) ==
    IF p.kind = "Join"
    THEN [p EXCEPT
            !.left_ = Reordered(IF depth \in swapped THEN p.right_ ELSE p.left_,
                                swapped, reversed, depth + 1),
            !.right_ = Reordered(IF depth \in swapped THEN p.left_ ELSE p.right_,
                                 swapped, reversed, depth + 1),
            !.conds_ = IF reversed THEN Reverse(@) ELSE @]
    ELSE IF p.kind = "Filter"
    THEN [p EXCEPT !.subplan_ = Reordered(@, swapped, reversed, depth + 1),
                   !.conds_ = IF reversed THEN Reverse(@) ELSE @]
    ELSE IF p.kind \in {"Projection", "Sort"}
    THEN [p EXCEPT !.subplan_ = Reordered(@, swapped, reversed, depth + 1)]
    ELSE p
\* The number of nodes of a plan.
RECURSIVE NodeCount(_)
NodeCount(p) ==
    IF p.kind = "Join" THEN 1 + NodeCount(p.left_) + NodeCount(p.right_)
    ELSE IF p.kind \in {"Projection", "Sort", "Filter"}
    THEN 1 + NodeCount(p.subplan_)
    ELSE 1
PlanDepths == 0..4
TabCount(line) == Cardinality({i \in 1..Len(line) : line[i] = "\t"})
\* The pieces of a string between the occurrences of a separator.
RECURSIVE SplitAt(_, _)
SplitAt(str, sep) ==
    LET at == {i \in 1..Len(str) : str[i] = sep}
    IN IF at = {} THEN <<str>>
       ELSE LET i == CHOOSE k \in at : \A j \in at : k <= j
            IN <<SubSeq(str, 1, i - 1)>>
                 \o SplitAt(SubSeq(str, i + 1, Len(str)), sep)
\* The lists that a line without indentation prints between brackets.
ListsOf(line) ==
    IF line[1] = "Join(tables=["
    THEN LET parts == SplitAt(SubSeq(line, 2, Len(line) - 1), "],condition=[")
         IN <<SplitAt(parts[1], ","), SplitAt(parts[2], ",")>>
    ELSE IF line[1] \in {"Filter(condition=[", "Project(columns=["}
    THEN <<SplitAt(SubSeq(line, 2, Len(line) - 1), ",")>>
    ELSE <<>>
InOrder(strs) == \A i \in 1..(Len(strs) - 1) : ~StrLess(strs[i + 1], strs[i])

\* C25: EXPLAIN determinism.  The EXPLAIN text of a plan has one line per
\* node, the root without indentation and every other line at most one tab
\* deeper than the line before it; the conditions, columns and tables that
\* a line lists are in lexicographic order; the children of a node come in
\* the order of their lines; and the plan with children exchanged or
\* conditions reordered has the same text.
C25_ExplainDeterminism ==
    Explained =>
      LET text == portal.root.plan_output_
      IN /\ Len(text) = NodeCount(plan.subplan_)
         /\ TabCount(text[1]) = 0
         /\ \A n \in 2..Len(text) :
               /\ TabCount(text[n]) >= 1
               /\ TabCount(text[n]) <= TabCount(text[n - 1]) + 1
               /\ text[n][TabCount(text[n])] = "\t"
         /\ \A n \in 1..Len(text) : \A l \in 1..Len(ListsOf(ExplainLines[n])) :
               InOrder(ListsOf(ExplainLines[n])[l])
         /\ \A n, m \in 1..Len(text) :
               (/\ n < m
                /\ TabCount(text[n]) = TabCount(text[m])
                /\ \A k \in (n + 1)..(m - 1) : TabCount(text[k]) > TabCount(text[n]))
                  => ~StrLess(text[m], text[n])
         /\ \A swapped \in SUBSET PlanDepths : \A reversed \in BOOLEAN :
               build_plan_tree_string(plan.table_alias_map_, plan.is_select_star_,
                   Reordered(plan.subplan_, swapped, reversed, 0), 0) = text

\* The text of a plan was built whose join has its children in the other
\* order than their lines, over a filter that lists two conditions.
C25_Witness ==
    /\ Explained
    /\ plan.subplan_.subplan_.kind = "Join"
    /\ StrLess(get_plan_name(plan.table_alias_map_, FALSE, plan.subplan_.subplan_.right_),
               get_plan_name(plan.table_alias_map_, FALSE, plan.subplan_.subplan_.left_))
    /\ \E n \in 1..Len(ExplainLines) :
          /\ ExplainLines[n][1] = "Filter(condition=["
          /\ Len(ListsOf(ExplainLines[n])[1]) = 2

\* C26: EXPLAIN of SELECT *.  The first line of the EXPLAIN text of a
\* SELECT with an empty select list is Project(columns=[*]).
C26_ExplainSelectStar ==
    (Explained /\ sql.cols = <<>>)
      => portal.root.plan_output_[1] = <<"Project(columns=[*])">>

\* C27: EXPLAIN yields one record.  After beginTuple the Explain executor
\* is not at its end and Next returns the record that holds the plan text;
\* after one nextTuple it is at its end; the rows that a draining loop
\* collects are that one record.
C27_ExplainOneRecord ==
    (ex.kind = "explain" /\ mode = "rows")
      => /\ last_call = "begin"
              => /\ ~exIsEnd(ex)
                 /\ exNext(ex).rec = <<ex.plan_text>>
         /\ last_call = "nextTuple" => exIsEnd(ex)
         /\ RunOver => out = << <<ex.plan_text>> >>

\* The executors of a tree.
RECURSIVE SubExecs(_)
SubExecs(e) ==
    {e} \cup (CASE e.kind = "nlj" -> SubExecs(e.left) \cup SubExecs(e.right)
               [] e.kind = "filter" -> SubExecs(e.child)
               [] e.kind \in {"proj", "sort"} -> SubExecs(e.prev)
               [] OTHER -> {})
RECURSIVE SumLen(_)
SumLen(cs) == IF cs = <<>> THEN 0 ELSE Head(cs).len + SumLen(Tail(cs))
\* The first of the pieces is at 0, each of the others where the one before
\* it ends, and the last ends at the total.
RunningSum(at, len, n, total) ==
    /\ n > 0 => at[1] = 0
    /\ \A i \in 1..(n - 1) : at[i + 1] = at[i] + len[i] /\ at[i] < at[i + 1]
    /\ \A i \in 1..n : at[i] + len[i] <= total
    /\ n > 0 => at[n] + len[n] = total
ColsRunningSum(cs, total) ==
    RunningSum([i \in 1..Len(cs) |-> cs[i].offset],
               [i \in 1..Len(cs) |-> cs[i].len], Len(cs), total)
RecordFilled(rec) ==
    RunningSum([i \in 1..Len(rec.writes) |-> rec.writes[i].at],
               [i \in 1..Len(rec.writes) |-> rec.writes[i].len],
               Len(rec.writes), rec.size)
\* A column without its offset.
Unplaced(c) == [tab |-> c.tab, name |-> c.name, type |-> c.type, len |-> c.len]

\* The schema cs and length len of a projection e over a child with the
\* schema prev_cols.
ProjectionSchema(e, cs, prev_cols, len) ==
    /\ Len(cs) = Len(e.sel_cols)
    /\ \A i \in 1..Len(e.sel_cols) :
          /\ cs[i].tab = e.sel_cols[i].tab
          /\ cs[i].name = e.sel_cols[i].col
          /\ \E k \in 1..Len(prev_cols) : Unplaced(prev_cols[k]) = Unplaced(cs[i])
    /\ ColsRunningSum(cs, len)
    /\ len = SumLen(cs)
    /\ Projection_record(e).size = len
    /\ RecordFilled(Projection_record(e))
\* The schema cs of a join e over children with the schemas left_cols and
\* right_cols and the lengths left_len and right_len.
JoinSchema(e, cs, left_cols, right_cols, left_len, right_len) ==
    /\ Len(cs) = Len(left_cols) + Len(right_cols)
    /\ \A i \in 1..Len(left_cols) : cs[i] = left_cols[i]
    /\ \A i \in 1..Len(right_cols) :
          /\ Unplaced(cs[Len(left_cols) + i]) = Unplaced(right_cols[i])
          /\ cs[Len(left_cols) + i].offset = right_cols[i].offset + left_len
    /\ tupleLen(e) = left_len + right_len
    /\ ColsRunningSum(cs, left_len + right_len)
    /\ RecordFilled(NestedLoopJoin_record(e))

ProjectedTwice ==
    ex.kind = "proj" /\ ex.prev.kind = "proj" /\ ex.sel_cols = ex.prev.sel_cols

\* The records that a draining loop collects from an executor that was
\* begun, up to MaxDrain of them.
MaxDrain == 8
RECURSIVE Drained(_, _)
Drained(e, n) ==
    IF n = 0 \/ Crashed(e) \/ exIsEnd(e) THEN <<>>
    ELSE <<exNext(e).rec>> \o Drained(exNextTuple(exNext(e).e), n - 1)

\* C29: projection idempotence.  A projection of a projection with the same
\* columns has the schema and the tupleLen of the inner projection, and a
\* draining loop collects from it the rows that it collects from the inner
\* projection alone; while it runs it is at its end exactly when the inner
\* one is and returns the record the inner one returns.
C29_ProjectionIdempotent ==
    ProjectedTwice =>
      /\ Schema(ex) = Schema(ex.prev)
      /\ exec_cols(ex) = exec_cols(ex.prev)
      /\ tupleLen(ex) = tupleLen(ex.prev)
      /\ last_call = "ctor"
            => Drained(exBegin(ex), MaxDrain) = Drained(exBegin(ex.prev), MaxDrain)
      /\ exIsEnd(ex) = exIsEnd(ex.prev)
      /\ (last_call \in {"begin", "nextTuple"} /\ ~exIsEnd(ex))
            => exNext(ex).rec = exNext(ex.prev).rec

\* A projection of a projection of the join of t and u on t.b and t.a was
\* drained and gave two rows or more.
C29_Witness ==
    /\ ProjectedTwice
    /\ ex.prev.prev.kind = "nlj"
    /\ ex.sel_cols = <<Col("t", "b"), Col("t", "a")>>
    /\ mode = "rows" /\ RunOver /\ Len(out) >= 2

\* C30: catalog invariant.  After any sequence of create_table, drop_table,
\* create_index and drop_index calls, every table of the catalog has
\* pairwise distinct column names, column offsets that are the running sum
\* of the lengths before them with the total equal to the record size of
\* its file, and no two index descriptors with the same ordered list of
\* columns.
C30_CatalogInvariant ==
    \A tab_name \in DOMAIN tabs_ :
        LET tab == tabs_[tab_name]
        IN /\ \A i, j \in 1..Len(tab.cols) :
                 i # j => tab.cols[i].name # tab.cols[j].name
           /\ ColsRunningSum(tab.cols, fhs_[tab_name])
           /\ \A i, j \in 1..Len(tab.indexes) :
                 i # j => IndexColNames(tab.indexes[i]) # IndexColNames(tab.indexes[j])

\* The conditions attached to the nodes of a plan, node after node.
RECURSIVE PlanConds(_)
PlanConds(p) ==
    IF p.kind = "Scan" THEN p.conds_
    ELSE IF p.kind = "Join"
    THEN p.conds_ \o PlanConds(p.left_) \o PlanConds(p.right_)
    ELSE IF p.kind = "Filter" THEN p.conds_ \o PlanConds(p.subplan_)
    ELSE IF p.kind \in {"Projection", "Sort", "DML"} THEN PlanConds(p.subplan_)
    ELSE <<>>
\* The condition, or the condition with its sides exchanged.
SameCond(c, d) == d = c \/ (~c.is_rhs_val /\ d = SwapCond(c))
\* How often a list holds the condition.
Times(conds, c) == Cardinality({n \in 1..Len(conds) : SameCond(c, conds[n])})

\* C31: no predicate is lost.  Every condition of Query.conds, literal or
\* column against column, a comparison of two columns of one table
\* included, is attached to exactly one Scan, Filter or Join node of the
\* final plan, possibly with its sides exchanged.
C31_NoPredicateLost ==
    Planned =>
        \A n \in 1..Len(query.conds) :
            Times(PlanConds(plan), query.conds[n])
               = Times(query.conds, query.conds[n])

\* The tables of the query are pairwise different.
QueryDistinct(q) ==
    \A i, j \in 1..Len(q.tables) : i # j => q.tables[i] # q.tables[j]
\* The trees make_one_rel may return for the analysed query, one for each
\* order join_order_optimization may leave the tables in.
OneRels ==
    {make_one_rel(join_order_optimization(query, order)) :
        order \in TableOrders(Len(query.tables))}
\* The tables a condition names.
CondTabs(c) ==
    {c.lhs_col.tab} \cup (IF c.is_rhs_val THEN {} ELSE {c.rhs_col.tab})
\* The conditions of every scan are about its table, those of every join
\* compare a column of its left input with a column of its right input.
RECURSIVE Scoped(_)
Scoped(p) ==
    IF p.kind = "Scan"
    THEN \A n \in 1..Len(p.conds_) : CondTabs(p.conds_[n]) = {p.tab_name_}
    ELSE IF p.kind = "Join"
    THEN /\ Scoped(p.left_) /\ Scoped(p.right_)
         /\ \A n \in 1..Len(p.conds_) :
               /\ ~p.conds_[n].is_rhs_val
               /\ p.conds_[n].lhs_col.tab \in collect_table_names_from_plan(p.left_)
               /\ p.conds_[n].rhs_col.tab \in collect_table_names_from_plan(p.right_)
    ELSE TRUE

\* C32: plan condition scoping.  In the tree make_one_rel returns for a
\* query over distinct tables, every condition of a Scan references only
\* the table of that scan, and every condition of a Join has its left
\* column in a table of the left subtree and its right column in a table
\* of the right subtree.
C32_ConditionScoping ==
    (stage = "analysed" /\ sql.kind \in {"select", "explain"}
       /\ QueryDistinct(query))
      => \A rel \in OneRels : rel.err = "none" => Scoped(rel.plan)

\* The tables of the Scan leaves of a plan, from left to right.
RECURSIVE ScanLeaves(_)
ScanLeaves(p) ==
    IF p.kind = "Scan" THEN <<p.tab_name_>>
    ELSE IF p.kind = "Join" THEN ScanLeaves(p.left_) \o ScanLeaves(p.right_)
    ELSE IF p.kind \in {"Filter", "Projection", "Sort", "DML"}
    THEN ScanLeaves(p.subplan_)
    ELSE <<>>
\* The number of Join nodes of a plan.
RECURSIVE JoinCount(_)
JoinCount(p) ==
    IF p.kind = "Join" THEN 1 + JoinCount(p.left_) + JoinCount(p.right_)
    ELSE IF p.kind \in {"Filter", "Projection", "Sort", "DML"}
    THEN JoinCount(p.subplan_)
    ELSE 0
\* The tables that no condition of the query compares with another table.
Unconnected(q) ==
    {q.tables[i] : i \in 1..Len(q.tables)}
       \ UNION {CondTabs(q.conds[n]) : n \in
                  {m \in 1..Len(q.conds) : Cardinality(CondTabs(q.conds[m])) = 2}}
\* The joins that bring in the scan of one of these tables have no condition.
RECURSIVE AttachedBare(_, _)
AttachedBare(p, tabs) ==
    p.kind = "Join" =>
        /\ AttachedBare(p.left_, tabs) /\ AttachedBare(p.right_, tabs)
        /\ (\E side \in {p.left_, p.right_} :
               side.kind = "Scan" /\ side.tab_name_ \in tabs)
              => p.conds_ = <<>>

\* C34: every table is scanned exactly once.  For a SELECT over n >= 1
\* distinct tables with any set of join predicates (none, too few to
\* connect the tables, or a cycle) the plan of make_one_rel has exactly n
\* Scan leaves, one for each table, and n - 1 Join nodes; the tables no
\* predicate connects are attached by Joins without conditions.
C34_ScannedOnce ==
    (stage = "analysed" /\ sql.kind \in {"select", "explain"}
       /\ QueryDistinct(query))
      => \A rel \in OneRels :
            rel.err = "none" =>
               /\ Len(ScanLeaves(rel.plan)) = Len(query.tables)
               /\ \A i \in 1..Len(query.tables) :
                     \E j \in 1..Len(ScanLeaves(rel.plan)) :
                         ScanLeaves(rel.plan)[j] = query.tables[i]
               /\ JoinCount(rel.plan) = Len(query.tables) - 1
               /\ AttachedBare(rel.plan, Unconnected(query))

\* A SELECT over t, u and v with the one predicate t.a = u.a is analysed:
\* v is attached by a Join without conditions above the join of t and u.
C34_Witness ==
    /\ stage = "analysed" /\ sql.kind = "select"
    /\ query.tables = <<"t", "u", "v">>
    /\ Len(query.conds) = 1 /\ CondTabs(query.conds[1]) = {"t", "u"}
    /\ \E rel \in OneRels :
          /\ rel.err = "none" /\ rel.plan.kind = "Join"
          /\ rel.plan.conds_ = <<>>
          /\ rel.plan.left_.kind = "Scan" /\ rel.plan.left_.tab_name_ = "v"
          /\ rel.plan.right_.kind = "Join"

\* The values of the two columns a condition is evaluated on.
PairVals == -2..2
\* The map every site has to hold.
TurnedRound(op) ==
    CASE op = "EQ" -> "EQ" [] op = "NE" -> "NE" [] op = "LT" -> "GT"
      [] op = "GT" -> "LT" [] op = "LE" -> "GE" [] op = "GE" -> "LE"
\* Two conditions on columns of two tables hold for the same records of the
\* join of the tables, by eval_cond.
EvalSame(c, d) ==
    LET rec_cols == TabCols(c.lhs_col.tab) \o TabCols(c.rhs_col.tab)
        l == get_col(rec_cols, c.lhs_col)
        r == get_col(rec_cols, c.rhs_col)
    IN \A x, y \in PairVals :
          LET rec == [i \in 1..Len(rec_cols) |->
                         IF i = l THEN x ELSE IF i = r THEN y ELSE 0]
          IN eval_cond(rec_cols, c, rec) = eval_cond(rec_cols, d, rec)
\* The conditions of the query that compare columns of two tables.
CrossConds(q) ==
    {q.conds[n] : n \in {m \in 1..Len(q.conds) :
                           Cardinality(CondTabs(q.conds[m])) = 2}}
\* The conditions of the plan that are not in the query as they are and
\* compare the columns of a condition of the query in the other order.
Exchanged(c) ==
    {PlanConds(plan)[n] : n \in
        {m \in 1..Len(PlanConds(plan)) :
            /\ ~PlanConds(plan)[m].is_rhs_val
            /\ \A k \in 1..Len(query.conds) : query.conds[k] # PlanConds(plan)[m]
            /\ PlanConds(plan)[m].lhs_col = c.rhs_col
            /\ PlanConds(plan)[m].rhs_col = c.lhs_col}}

\* C33: operand swap preserves meaning.  The operator maps of the join
\* building of make_one_rel, of push_conds and of the IndexScan
\* normalisation are the same map EQ->EQ, NE->NE, LT->GT, GT->LT, LE->GE,
\* GE->LE; applying it twice gives the operator back; and a condition whose
\* sides one of the three sites exchanged holds for the same pairs of
\* values as the condition it came from.
C33_SwapPreservesMeaning ==
    /\ \A op \in Ops :
          /\ make_one_rel_swap_op(op) = TurnedRound(op)
          /\ push_conds_swap_op(op) = TurnedRound(op)
          /\ swap_op(op) = TurnedRound(op)
          /\ make_one_rel_swap_op(make_one_rel_swap_op(op)) = op
          /\ push_conds_swap_op(push_conds_swap_op(op)) = op
          /\ swap_op(swap_op(op)) = op
    /\ Planned =>
          \A c \in CrossConds(query) :
              /\ \A d \in Exchanged(c) : EvalSame(c, d)
              /\ EvalSame(c, IndexScan_normalise(c.rhs_col.tab, c))

\* A plan holds t.a < v.a where the query has v.a > t.a, and another plan
\* u.a > t.a where the query has t.a < u.a.
C33_Witness ==
    /\ Planned
    /\ \E c \in CrossConds(query) :
          /\ c.op \in {"LT", "GT", "LE", "GE"}
          /\ Exchanged(c) # {}
          /\ IndexScan_normalise(c.rhs_col.tab, c).lhs_col = c.rhs_col

\* The Scan nodes of the plan.
ScanNodes(p) == {n \in SubPlans(p) : n.kind = "Scan"}

\* C35: access path consistency.  Every Scan node of the plan of a SELECT,
\* an UPDATE or a DELETE is an index scan if and only if its list of index
\* columns is not empty, and the list of an index scan is the column list
\* of an index that exists on the table of the scan.
C35_AccessPath ==
    (Planned \/ stage = "dml_planned") =>
        \A n \in ScanNodes(plan) :
            /\ n.tag \in {"T_IndexScan", "T_SeqScan"}
            /\ n.tag = "T_IndexScan" <=> n.index_col_names_ # <<>>
            /\ n.tag = "T_IndexScan" =>
                  n.index_col_names_ \in catalog[n.tab_name_]

\* An UPDATE of t with predicates on b and a is planned as an index scan
\* on (a, b), the index of t.
C35_Witness ==
    /\ stage = "dml_planned"
    /\ sql.kind = "update" /\ Len(query.conds) = 2
    /\ plan.subplan_.tag = "T_IndexScan"
    /\ plan.subplan_.index_col_names_ = <<"a", "b">>
    /\ catalog["t"] = {<<"a", "b">>}

Largest(S) == CHOOSE x \in S : \A y \in S : x >= y
\* The literals of the conditions on the index column with one of the
\* operators.
BoundLits(conds, index_col, ops) ==
    {conds[n].rhs_val.val : n \in
        {m \in 1..Len(conds) :
            /\ conds[m].is_rhs_val /\ conds[m].lhs_col.col = index_col
            /\ conds[m].op \in ops}}
\* A scan of t by the index on (a) has been opened.
IndexScanOpened == ex.kind = "ixscan" /\ ex.open /\ ex.icols = <<1>>

\* C36: index range bounds.  In IndexScan::beginTuple with several GT or GE
\* literals on the index column the lower bound is their maximum, and with
\* several LT or LE literals the upper bound is their minimum, for all
\* int literals: the comparison of two int values has the sign of their
\* mathematical difference.
C36_RangeBounds ==
    (IndexScanOpened /\ BoundLits(ex.conds, "a", {"EQ"}) = {})
      => LET b == Bounds(NoBounds, ex.conds, 1, "a", "int")
             lows == BoundLits(ex.conds, "a", {"GT", "GE"})
             highs == BoundLits(ex.conds, "a", {"LT", "LE"})
         IN /\ b.has_lower <=> lows # {}
            /\ b.has_upper <=> highs # {}
            /\ b.has_lower => b.lower_val.val = Largest(lows)
            /\ b.has_upper => b.upper_val.val = Min(highs)

\* C37: the index range is never inverted.  For any literal predicates on
\* the index column, contradictory ones such as x > 5 AND x < 3 or x = 5
\* AND x <= 3 included, the lower cursor of the range beginTuple computes
\* is not after the upper cursor, and draining the scan ends without
\* running off the leaf.
C37_RangeNotInverted ==
    IndexScanOpened =>
        /\ ScanRange(ex).lower <= ScanRange(ex).upper
        /\ ~ex.crash

\* C38: literal coercion in SELECT predicates.  After the analysis of a
\* predicate column OP literal whose literal has another type than the
\* column (an INT literal against a FLOAT column, a FLOAT literal against
\* an INT column) the stored literal carries the type of the column and the
\* value coerced to that type, a float truncated toward zero for an int
\* column.
C38_LiteralCoercion ==
    (Analysed /\ query.err = "none" /\ sql.kind \in {"select", "explain"})
      => \A n \in 1..Len(sql.conds) :
            sql.conds[n].is_rhs_val =>
               LET type == ColTypeOf(query.conds[n].lhs_col.tab,
                                     query.conds[n].lhs_col.col)
                   want == Coerce(type, sql.conds[n].rhs_val)
               IN want.ok =>
                     /\ query.conds[n].rhs_val.type = type
                     /\ query.conds[n].rhs_val.val = want.raw


\* The rows of table t that satisfied the WHERE clause of session s when
\* its statement started.
Matching(s) ==
    {r \in Live(thr[s].start) :
        eval_conds(TabCols("t"), thr[s].conds, thr[s].start[r])}

\* The row a successful UPDATE of session s leaves in place of old: the SET
\* columns overwritten, the others kept.
Overwritten(s, old) ==
    [c \in 1..Len(old) |->
        IF \E n \in 1..Len(thr[s].sets) : thr[s].sets[n].col = c
        THEN LET n == CHOOSE n \in 1..Len(thr[s].sets) : thr[s].sets[n].col = c
             IN Coerce(ColTypes[c], thr[s].sets[n].rhs).raw
        ELSE old[c]]

\* Session s runs its statement with no other statement on the table.
Alone(s) == \A o \in Sessions \ {s} : thr[o].pc = "idle"

\* C39: an UPDATE that runs alone works on the rid vector the portal
\* drained before the first mutation: the vector holds each row that
\* satisfied WHERE when the statement started exactly once, also when SET
\* changes the column the index scan ranges over; the rows up to rid_idx_
\* have been updated once each and the others are as they were; a row
\* that has been updated equals the old row with the SET columns
\* overwritten, and every index whose key changed holds the new key for
\* the rid and the old key no more.
C39_UpdateOncePerRow ==
    \A s \in Sessions :
        (thr[s].kind = "update" /\ thr[s].pc \in {"collected", "done"} /\ Alone(s)) =>
            LET st == thr[s].start
                rids == thr[s].rids
            IN /\ {rids[n] : n \in 1..Len(rids)} = Matching(s)
               /\ Len(rids) = Cardinality(Matching(s))
               /\ thr[s].pc = "done" => thr[s].rid_idx_ = Len(rids)
               /\ thr[s].hit = [n \in 1..thr[s].rid_idx_ |->
                                   [rid |-> rids[n], live |-> TRUE, sat |-> TRUE]]
               /\ \A r \in Rids \ Matching(s) : heap[r] = st[r]
               /\ \A n \in 1..Len(rids) :
                     IF n > thr[s].rid_idx_ THEN heap[rids[n]] = st[rids[n]]
                     ELSE /\ heap[rids[n]] = Overwritten(s, st[rids[n]])
                          /\ \A i \in 1..Len(indexes) :
                                LET old_key == IndexKey(indexes[i], st[rids[n]])
                                    new_key == IndexKey(indexes[i], heap[rids[n]])
                                IN old_key # new_key =>
                                      /\ <<new_key, rids[n]>> \in idx[i]
                                      /\ \A e \in idx[i] : e[1] # old_key

C39_Witness ==
    /\ indexes = << <<1>> >>
    /\ thr[1].kind = "update" /\ thr[1].pc = "done" /\ thr[1].err = "none"
    /\ Alone(1)
    /\ thr[1].conds = <<Lit("t", "a", "GE", "int", 2)>>
    /\ thr[1].sets = << [col |-> 1, rhs |-> [type |-> "int", val |-> 3]] >>
    /\ thr[1].rids = <<2>>
    /\ thr[1].hit = << [rid |-> 2, live |-> TRUE, sat |-> TRUE] >>
    /\ heap[2] = <<3, 20>>
    /\ idx[1] = { << <<1>>, 1 >>, << <<3>>, 2 >> }


\* C40: whatever the interleaving of two UPDATE or DELETE statements on
\* table t, every rid a statement has changed was, at the moment of the
\* change, a live record that satisfied the WHERE clause of the statement.
C40_MutatesMatchingLiveRows ==
    \A s \in Sessions : \A n \in 1..Len(thr[s].hit) :
        thr[s].hit[n].live /\ thr[s].hit[n].sat
====
